---- MODULE Spec2Model ----
(***************************************************************************)
(* Model of the expert-system web demo (web_app.py): the bilingual         *)
(* normalizer, the forward-chaining rule engine, the country-page          *)
(* extractor and the search handler.                                       *)
(*                                                                         *)
(* Strings are sequences of Unicode code points, so that trimming and      *)
(* lower-casing are computed and not assumed.  The empty string is <<>>.   *)
(* Python's None is the value None below.  A dict is a function whose      *)
(* DOMAIN is its key set.                                                  *)
(***************************************************************************)
EXTENDS Integers, Sequences, FiniteSets, TLC

None == <<-1>>

\* Python truthiness of a str-or-None value: `if x`, `x or y`.
Truthy(x) == x # None /\ x # <<>>

\* `a or b` on str-or-None values.
PyOr(a, b) == IF Truthy(a) THEN a ELSE b

\* dict.get(k): None when the key is missing.
DictGet(d, k) == IF k \in DOMAIN d THEN d[k] ELSE None

\* d[k] = v on a dict.
DictSet(d, k, v) == [x \in (DOMAIN d) \cup {k} |-> IF x = k THEN v ELSE d[x]]

SetMin(S) == CHOOSE x \in S : \A y \in S : x <= y
SetMax(S) == CHOOSE x \in S : \A y \in S : y <= x

(***************************************************************************)
(* str.strip() and str.lower() on the modelled alphabet: Basic Latin,      *)
(* Latin-1 and the Vietnamese letters of Latin Extended-A / Additional.    *)
(***************************************************************************)
IsSpace(c) == c \in (9..13) \cup (28..32) \cup {133, 160}

strip(s) ==
  LET keep == {i \in 1..Len(s) : ~IsSpace(s[i])}
  IN  IF keep = {} THEN <<>> ELSE SubSeq(s, SetMin(keep), SetMax(keep))

lower_cp(c) ==
  IF c \in 65..90 THEN c + 32
  ELSE IF c \in 192..222 /\ c # 215 THEN c + 32
  ELSE IF (c \in 256..303 \/ c \in 7840..7929) /\ c % 2 = 0 THEN c + 1
  ELSE IF c \in {416, 431} THEN c + 1
  ELSE c

lower(s) == [i \in 1..Len(s) |-> lower_cp(s[i])]


\* _norm without the lower-casing.
_norm_no_lower(s) == strip(PyOr(s, <<>>))

\* _norm: (s or "").strip().lower()
_norm(s) == lower(strip(PyOr(s, <<>>)))

(***************************************************************************)
(* The six controlled vocabularies, in the order of the dict literals.     *)
(* Each item is << source token, target label >>.                          *)
(***************************************************************************)
\* GOV_MAP, lines (144, 150)
GOV_MAP_ITEMS ==
  << << <<100, 101, 109, 111, 99, 114, 97, 99, 121>>,
        <<100, 226, 110, 32, 99, 104, 7911>> >>,
     << <<99, 111, 109, 109, 117, 110, 105, 115, 116>>,
        <<99, 7897, 110, 103, 32, 115, 7843, 110>> >>,
     << <<109, 111, 110, 97, 114, 99, 104, 121>>,
        <<113, 117, 226, 110, 32, 99, 104, 7911>> >>,
     << <<114, 101, 112, 117, 98, 108, 105, 99>>,
        <<99, 7897, 110, 103, 32, 104, 242, 97>> >>,
     << <<102, 101, 100, 101, 114, 97, 108>>,
        <<108, 105, 234, 110, 32, 98, 97, 110, 103>> >> >>

\* FIELD_MAP, lines (153, 158)
FIELD_MAP_ITEMS ==
  << << <<116, 101, 99, 104, 110, 111, 108, 111, 103, 121>>,
        <<99, 244, 110, 103, 32, 110, 103, 104, 7879>> >>,
     << <<109, 97, 110, 117, 102, 97, 99, 116, 117, 114, 105, 110, 103>>,
        <<115, 7843, 110, 32, 120, 117, 7845, 116>> >>,
     << <<116, 111, 117, 114, 105, 115, 109>>,
        <<100, 117, 32, 108, 7883, 99, 104>> >>,
     << <<105, 110, 102, 114, 97, 115, 116, 114, 117, 99, 116, 117, 114, 101>>,
        <<104, 7841, 32, 116, 7847, 110, 103>> >> >>

\* RELIGION_MAP, lines (161, 167)
RELIGION_MAP_ITEMS ==
  << << <<99, 104, 114, 105, 115, 116, 105, 97, 110, 105, 116, 121>>,
        <<116, 104, 105, 234, 110, 32, 99, 104, 250, 97, 32, 103, 105, 225, 111>> >>,
     << <<98, 117, 100, 100, 104, 105, 115, 109>>,
        <<112, 104, 7853, 116, 32, 103, 105, 225, 111>> >>,
     << <<104, 105, 110, 100, 117, 105, 115, 109>>,
        <<7845, 110, 32, 273, 7897, 32, 103, 105, 225, 111>> >>,
     << <<105, 115, 108, 97, 109>>,
        <<104, 7891, 105, 32, 103, 105, 225, 111>> >>,
     << <<97, 116, 104, 101, 105, 115, 116>>,
        <<118, 244, 32, 116, 104, 7847, 110>> >> >>

\* CLIMATE_MAP, lines (170, 174)
CLIMATE_MAP_ITEMS ==
  << << <<99, 111, 108, 100>>,
        <<108, 7841, 110, 104>> >>,
     << <<109, 111, 100, 101, 114, 97, 116, 101>>,
        <<244, 110, 32, 104, 242, 97>> >>,
     << <<104, 111, 116>>,
        <<110, 243, 110, 103>> >> >>

\* TRADE_MAP, lines (177, 180)
TRADE_MAP_ITEMS ==
  << << <<105, 109, 112, 111, 114, 116>>,
        <<110, 104, 7853, 112, 32, 107, 104, 7849, 117>> >>,
     << <<101, 120, 112, 111, 114, 116>>,
        <<120, 117, 7845, 116, 32, 107, 104, 7849, 117>> >> >>

\* PLACE_MAP, lines (183, 188)
PLACE_MAP_ITEMS ==
  << << <<104, 105, 115, 116, 111, 114, 105, 99, 97, 108>>,
        <<108, 7883, 99, 104, 32, 115, 7917>> >>,
     << <<104, 105, 108, 108, 32, 115, 116, 97, 116, 105, 111, 110>>,
        <<110, 250, 105, 32, 273, 7891, 105>> >>,
     << <<100, 101, 115, 101, 114, 116>>,
        <<115, 97, 32, 109, 7841, 99>> >>,
     << <<98, 101, 97, 99, 104>>,
        <<98, 105, 7875, 110>> >> >>

\* Strings the inputs are drawn from.
S_business == <<98, 117, 115, 105, 110, 101, 115, 115>>   \* "business"
S_job == <<106, 111, 98>>   \* "job"
S_cold == <<99, 111, 108, 100>>   \* "cold"
S_hot == <<104, 111, 116>>   \* "hot"
S_democracy == <<100, 101, 109, 111, 99, 114, 97, 99, 121>>   \* "democracy"
S_monarchy == <<109, 111, 110, 97, 114, 99, 104, 121>>   \* "monarchy"
S_islam == <<105, 115, 108, 97, 109>>   \* "islam"
S_buddhism == <<98, 117, 100, 100, 104, 105, 115, 109>>   \* "buddhism"
S_technology == <<116, 101, 99, 104, 110, 111, 108, 111, 103, 121>>   \* "technology"
S_tourism == <<116, 111, 117, 114, 105, 115, 109>>   \* "tourism"
S_export == <<101, 120, 112, 111, 114, 116>>   \* "export"
S_import == <<105, 109, 112, 111, 114, 116>>   \* "import"
S_lanh == <<108, 7841, 110, 104>>   \* "lanh"
S_dan_chu == <<100, 226, 110, 32, 99, 104, 7911>>   \* "dan chu"
S_hoi_giao == <<104, 7891, 105, 32, 103, 105, 225, 111>>   \* "hoi giao"
S_cong_nghe == <<99, 244, 110, 103, 32, 110, 103, 104, 7879>>   \* "cong nghe"
S_xuat_khau == <<120, 117, 7845, 116, 32, 107, 104, 7849, 117>>   \* "xuat khau"
S_LANH_padded == <<32, 32, 76, 7840, 78, 72, 32>>   \* "  LANH "
S_Dan_Chu == <<68, 226, 110, 32, 67, 104, 7911>>   \* "Dan Chu"
S_Export_padded == <<32, 69, 120, 112, 111, 114, 116, 9>>   \* " Export\t"
S_CONG_NGHE == <<67, 212, 78, 71, 32, 78, 71, 72, 7878>>   \* "CONG NGHE"
S_tundra == <<116, 117, 110, 100, 114, 97>>   \* "tundra"
S_theocracy == <<116, 104, 101, 111, 99, 114, 97, 99, 121>>   \* "theocracy"
S_shinto == <<115, 104, 105, 110, 116, 111>>   \* "shinto"
S_mining == <<109, 105, 110, 105, 110, 103>>   \* "mining"
S_transit == <<116, 114, 97, 110, 115, 105, 116>>   \* "transit"

\* Texts of the country pages the documents are built from.
S_Area == <<65, 114, 101, 97>>   \* "Area"
S_Area_note == <<65, 114, 101, 97, 32, 45, 32, 99, 111, 109, 112, 97, 114, 97, 116, 105, 118, 101>>   \* "Area - comparative"
S_Area_spaced == <<32, 32, 65, 114, 101, 97, 10>>   \* "  Area\n"
S_Land_use == <<76, 97, 110, 100, 32, 32, 117, 115, 101>>   \* "Land  use"
S_hyphen_first == <<45, 32, 116, 111, 116, 97, 108>>   \* "- total"
S_Area_hyphenated == <<65, 114, 101, 97, 45, 108, 97, 110, 100>>   \* "Area-land"
S_d1 == <<32, 100, 49, 32>>   \* " d1 "
S_d2 == <<100, 50>>   \* "d2"
S_d3 == <<100, 51>>   \* "d3"
S_d4 == <<100, 52>>   \* "d4"
S_s1 == <<116, 111, 116, 97, 108, 58>>   \* "total:"
S_s2 == <<108, 97, 110, 100, 58>>   \* "land:"
S_blank == <<32, 10>>   \* " \n"

\* A dict literal {k: v, ...}: a later item with the same key wins.
DictOf(items) ==
  [k \in {items[i][1] : i \in DOMAIN items} |->
     items[SetMax({i \in DOMAIN items : items[i][1] = k})][2]]

\* {v: k for k, v in M.items()}
RevOf(items) ==
  [v \in {items[i][2] : i \in DOMAIN items} |->
     items[SetMax({i \in DOMAIN items : items[i][2] = v})][1]]

GOV_MAP == DictOf(GOV_MAP_ITEMS)
GOV_REV == RevOf(GOV_MAP_ITEMS)
FIELD_MAP == DictOf(FIELD_MAP_ITEMS)
FIELD_REV == RevOf(FIELD_MAP_ITEMS)
RELIGION_MAP == DictOf(RELIGION_MAP_ITEMS)
RELIGION_REV == RevOf(RELIGION_MAP_ITEMS)
CLIMATE_MAP == DictOf(CLIMATE_MAP_ITEMS)
CLIMATE_REV == RevOf(CLIMATE_MAP_ITEMS)
TRADE_MAP == DictOf(TRADE_MAP_ITEMS)
TRADE_REV == RevOf(TRADE_MAP_ITEMS)
PLACE_MAP == DictOf(PLACE_MAP_ITEMS)
PLACE_REV == RevOf(PLACE_MAP_ITEMS)

\* The normalize_* body with `return rev.get(v, "")` as its end.
NormalizeWith_unknown_lost(map, rev, value) ==
  LET v == _norm(value)
  IN  IF v \in DOMAIN map THEN v
      ELSE IF v \in DOMAIN rev THEN rev[v]
      ELSE << >>

\* The shared body of the six normalize_* functions.
NormalizeWith(map, rev, value) ==
  LET v == _norm(value)
  IN  IF v \in DOMAIN map THEN v
      ELSE IF v \in DOMAIN rev THEN rev[v]
      ELSE v

normalize_government(value) == NormalizeWith(GOV_MAP, GOV_REV, value)
normalize_field(value) == NormalizeWith(FIELD_MAP, FIELD_REV, value)
normalize_religion(value) == NormalizeWith(RELIGION_MAP, RELIGION_REV, value)
normalize_climate(value) == NormalizeWith(CLIMATE_MAP, CLIMATE_REV, value)
normalize_trade(value) == NormalizeWith(TRADE_MAP, TRADE_REV, value)
normalize_place_type(value) == NormalizeWith(PLACE_MAP, PLACE_REV, value)

\* info.get(en) or info.get(vi) or ""
get_field(info, en, vi) == PyOr(PyOr(DictGet(info, en), DictGet(info, vi)), <<>>)

(***************************************************************************)
(* The rules.  A rule returns the fact dict after its call and its return  *)
(* value: [facts |-> ..., ret |-> ...].  Column headers are dict keys; the *)
(* Vietnamese headers are written without their diacritics.                *)
(***************************************************************************)
NoFire(facts) == [facts |-> facts, ret |-> FALSE]
\* Fire with the assignment replacing the dict instead of adding to it.
Fire_resetting(facts, fact) == [facts |-> [x \in {fact} |-> TRUE], ret |-> TRUE]
Fire(facts, fact) == [facts |-> DictSet(facts, fact, TRUE), ret |-> TRUE]

\* facts.get(k) used as a condition
FactGet(facts, k) == k \in DOMAIN facts /\ facts[k]

\* rule_live_climate without the check that its fact is already there.
rule_live_climate_refiring(name, info, ctx, facts) ==
  IF ~Truthy(DictGet(ctx, "climate"))
  THEN NoFire(facts)
  ELSE LET info_climate ==
             normalize_climate(get_field(info, "average weather", "khi hau trung binh"))
       IN  IF info_climate = ctx["climate"]
           THEN Fire(facts, "climate_match")
           ELSE NoFire(facts)

rule_live_climate(name, info, ctx, facts) ==
  IF FactGet(facts, "climate_match") \/ ~Truthy(DictGet(ctx, "climate"))
  THEN NoFire(facts)
  ELSE LET info_climate ==
             normalize_climate(get_field(info, "average weather", "khi hau trung binh"))
       IN  IF info_climate = ctx["climate"]
           THEN Fire(facts, "climate_match")
           ELSE NoFire(facts)

rule_live_government(name, info, ctx, facts) ==
  IF FactGet(facts, "gov_match") \/ ~Truthy(DictGet(ctx, "government"))
  THEN NoFire(facts)
  ELSE LET info_gov ==
             normalize_government(get_field(info, "type of government", "hinh thuc chinh phu"))
       IN  IF info_gov = ctx["government"]
           THEN Fire(facts, "gov_match")
           ELSE NoFire(facts)

rule_live_religion(name, info, ctx, facts) ==
  IF FactGet(facts, "religion_match") \/ ~Truthy(DictGet(ctx, "religion"))
  THEN NoFire(facts)
  ELSE LET info_rel ==
             normalize_religion(get_field(info, "major religion", "ton giao chinh"))
       IN  IF info_rel = ctx["religion"]
           THEN Fire(facts, "religion_match")
           ELSE NoFire(facts)

\* rule_live_selected counting a criterion the context omits as satisfied.
rule_live_selected_absent_ok(name, info, ctx, facts) ==
  IF FactGet(facts, "selected") THEN NoFire(facts)
  ELSE IF /\ FactGet(facts, "climate_match") \/ ~Truthy(DictGet(ctx, "climate"))
          /\ FactGet(facts, "gov_match") \/ ~Truthy(DictGet(ctx, "government"))
          /\ FactGet(facts, "religion_match") \/ ~Truthy(DictGet(ctx, "religion"))
       THEN Fire(facts, "selected")
       ELSE NoFire(facts)

rule_live_selected(name, info, ctx, facts) ==
  IF FactGet(facts, "selected") THEN NoFire(facts)
  ELSE IF /\ FactGet(facts, "climate_match")
          /\ FactGet(facts, "gov_match")
          /\ FactGet(facts, "religion_match")
       THEN Fire(facts, "selected")
       ELSE NoFire(facts)

LIVE_RULES ==
  << "rule_live_climate", "rule_live_government", "rule_live_religion", "rule_live_selected" >>

rule_work_field(name, info, ctx, facts) ==
  IF FactGet(facts, "field_match") \/ ~Truthy(DictGet(ctx, "domain"))
  THEN NoFire(facts)
  ELSE LET info_field == normalize_field(get_field(info, "field domain", "linh vuc"))
       IN  IF info_field = ctx["domain"]
           THEN Fire(facts, "field_match")
           ELSE NoFire(facts)

\* rule_work_trade without the check of the mode.
rule_work_trade_any_mode(name, info, ctx, facts) ==
  IF FactGet(facts, "trade_match") \/ ~Truthy(DictGet(ctx, "trade"))
  THEN NoFire(facts)
  ELSE LET info_trade == normalize_trade(get_field(info, "trade type", "loai thuong mai"))
       IN  IF info_trade = ctx["trade"]
           THEN Fire(facts, "trade_match")
           ELSE NoFire(facts)

rule_work_trade(name, info, ctx, facts) ==
  IF \/ DictGet(ctx, "mode") # S_business
     \/ FactGet(facts, "trade_match")
     \/ ~Truthy(DictGet(ctx, "trade"))
  THEN NoFire(facts)
  ELSE LET info_trade == normalize_trade(get_field(info, "trade type", "loai thuong mai"))
       IN  IF info_trade = ctx["trade"]
           THEN Fire(facts, "trade_match")
           ELSE NoFire(facts)

\* rule_work_selected asking for the field alone in every mode.
rule_work_selected_field_only(name, info, ctx, facts) ==
  IF FactGet(facts, "selected") THEN NoFire(facts)
  ELSE IF FactGet(facts, "field_match")
       THEN Fire(facts, "selected")
       ELSE NoFire(facts)

rule_work_selected(name, info, ctx, facts) ==
  IF FactGet(facts, "selected") THEN NoFire(facts)
  ELSE IF DictGet(ctx, "mode") = S_business
       THEN IF FactGet(facts, "field_match") /\ FactGet(facts, "trade_match")
            THEN Fire(facts, "selected")
            ELSE NoFire(facts)
       ELSE IF FactGet(facts, "field_match")
            THEN Fire(facts, "selected")
            ELSE NoFire(facts)

WORK_RULES == << "rule_work_field", "rule_work_trade", "rule_work_selected" >>

\* Calling the rule function a rule list holds.
CallRule(rule, name, info, ctx, facts) ==
  CASE rule = "rule_live_climate" -> rule_live_climate(name, info, ctx, facts)
    [] rule = "rule_live_government" -> rule_live_government(name, info, ctx, facts)
    [] rule = "rule_live_religion" -> rule_live_religion(name, info, ctx, facts)
    [] rule = "rule_live_selected" -> rule_live_selected(name, info, ctx, facts)
    [] rule = "rule_work_field" -> rule_work_field(name, info, ctx, facts)
    [] rule = "rule_work_trade" -> rule_work_trade(name, info, ctx, facts)
    [] rule = "rule_work_selected" -> rule_work_selected(name, info, ctx, facts)

\* expert_live: the context built from the form.
expert_live_context(climate_raw, government_raw, religion_raw) ==
  [k \in {"climate", "government", "religion"} |->
     CASE k = "climate" -> normalize_climate(climate_raw)
       [] k = "government" -> normalize_government(government_raw)
       [] k = "religion" -> normalize_religion(religion_raw)]

\* expert_work: the context built from the form.
expert_work_context(mode, trade_raw, domain_raw) ==
  [k \in {"mode", "trade", "domain"} |->
     CASE k = "mode" -> mode
       [] k = "trade" -> IF Truthy(trade_raw) THEN normalize_trade(trade_raw) ELSE None
       [] k = "domain" -> IF Truthy(domain_raw) THEN normalize_field(domain_raw) ELSE None]

\* Lines 270-272: `for rule in rules: if rule(...): changed = True`, from
\* the rule at position idx on.  st is [facts, changed].
RECURSIVE ForLoop(_, _, _, _, _)
ForLoop(rs, idx, row, ctx, st) ==
  IF idx > Len(rs) THEN st
  ELSE LET r == CallRule(rs[idx], "entity", row, ctx, st.facts)
       IN  ForLoop(rs, idx + 1, row, ctx,
                   [facts |-> r.facts, changed |-> (st.changed \/ r.ret)])

\* Lines 268-273: `while changed:` with the dict as it is at a pass's start.
RECURSIVE WhileLoop(_, _, _, _)
WhileLoop(rs, row, ctx, fs) ==
  LET st == ForLoop(rs, 1, row, ctx, [facts |-> fs, changed |-> FALSE])
  IN  IF st.changed THEN WhileLoop(rs, row, ctx, st.facts) ELSE st.facts

\* forward_chain_for_country as a function of its arguments: the dict it
\* returns.
forward_chain_for_country(name, row, ctx, rs) == WhileLoop(rs, row, ctx, << >>)

(***************************************************************************)
(* State.                                                                  *)
(*                                                                         *)
(* forward_chain_for_country: rules, info, context, facts, changed,        *)
(*   ruleIdx (the position of `for rule in rules`), passes (the passes     *)
(*   over the rule list begun so far), epc (the position in the function). *)
(* normalize_*: nfun (the function called), nvalue (its argument),         *)
(*   nresult (what it returned), npc.                                      *)
(* parse_html: doc (the document), pos (the position of the loop over the  *)
(*   markers), possibilities, ppc ("raised": left by an exception).        *)
(* /search: SEARCH_VI_CACHE (the module global), request (the form of the  *)
(*   last request), page (what parse_html makes of the pages of the        *)
(*   archive), response (what do_search answered), spc ("import": the      *)
(*   module is not loaded yet).                                            *)
(* get_vi_key_val called on its own: vcall (its arguments), vresult.       *)
(* The web application: USERS (the module global), session (the session    *)
(*   of the client), files (countries.csv and Tourism.csv), wrequest and   *)
(*   wresponse (the request being answered and its answer), wpc ("deploy": *)
(*   not yet started; "answered": the response is not yet sent).           *)
(* expert_travel: tcall (the table and the form), tresult, tpc.            *)
(* admin_countries_save in the threads of the server: threads (for each    *)
(*   thread the position in the handler, the form, the header and rows it  *)
(*   read, the rows it writes and how it answered).                        *)
(***************************************************************************)
VARIABLES rules, info, context, facts, changed, ruleIdx, passes, epc,
          nfun, nvalue, nresult, npc,
          doc, pos, possibilities, ppc,
          SEARCH_VI_CACHE, request, page, response, spc,
          vcall, vresult,
          USERS, session, files, wrequest, wresponse, wpc,
          tcall, tresult, tpc,
          threads

engineVars == << rules, info, context, facts, changed, ruleIdx, passes, epc >>
normVars == << nfun, nvalue, nresult, npc >>
parseVars == << doc, pos, possibilities, ppc >>
searchVars == << SEARCH_VI_CACHE, request, page, response, spc >>
viVars == << vcall, vresult >>
webVars == << USERS, session, files, wrequest, wresponse, wpc >>
travelVars == << tcall, tresult, tpc >>
raceVars == << threads >>

vars == << engineVars, normVars, parseVars, searchVars, viVars, webVars, travelVars, raceVars >>

notEngine == << normVars, parseVars, searchVars, viVars, webVars, travelVars, raceVars >>
notNorm == << engineVars, parseVars, searchVars, viVars, webVars, travelVars, raceVars >>
notParse == << engineVars, normVars, searchVars, viVars, webVars, travelVars, raceVars >>
notWeb == << engineVars, normVars, parseVars, searchVars, viVars, travelVars, raceVars >>
notTravel == << engineVars, normVars, parseVars, searchVars, viVars, webVars, raceVars >>
notSearch == << engineVars, normVars, parseVars, viVars, webVars, travelVars, raceVars >>

\* The passes a run may begin before the model stops following it.
MaxPasses == 6

\* load_country_details: one row as the dict of its non-empty, lower-cased
\* cells (the header row is lower-cased as well).
RowInfo(row) == [k \in {h \in DOMAIN row : row[h] # <<>>} |-> lower(row[k])]

\* A cell under the English header and a cell under the Vietnamese header of
\* one attribute: << en cell, vi cell >>.
ClimateCells ==
  { << S_cold, <<>> >>, << <<>>, S_LANH_padded >>, << S_hot, <<>> >>,
    << <<>>, <<>> >>, << S_hot, S_lanh >>, << S_tundra, <<>> >> }
GovCells ==
  { << S_democracy, <<>> >>, << <<>>, S_Dan_Chu >>, << S_monarchy, <<>> >>,
    << <<>>, <<>> >>, << S_monarchy, S_dan_chu >>, << S_theocracy, <<>> >> }
ReligionCells ==
  { << S_islam, <<>> >>, << <<>>, S_hoi_giao >>, << S_buddhism, <<>> >>,
    << <<>>, <<>> >>, << S_buddhism, S_hoi_giao >>, << S_shinto, <<>> >> }
FieldCells ==
  { << S_technology, <<>> >>, << <<>>, S_CONG_NGHE >>, << S_tourism, <<>> >>,
    << <<>>, <<>> >>, << S_tourism, S_cong_nghe >>, << S_mining, <<>> >> }
TradeCells ==
  { << S_export, <<>> >>, << <<>>, S_xuat_khau >>, << S_import, <<>> >>,
    << <<>>, <<>> >>, << S_import, S_xuat_khau >>, << S_transit, <<>> >> }

LiveRow(c, g, r) ==
  [h \in {"average weather", "khi hau trung binh", "type of government",
          "hinh thuc chinh phu", "major religion", "ton giao chinh"} |->
     CASE h = "average weather" -> c[1]
       [] h = "khi hau trung binh" -> c[2]
       [] h = "type of government" -> g[1]
       [] h = "hinh thuc chinh phu" -> g[2]
       [] h = "major religion" -> r[1]
       [] h = "ton giao chinh" -> r[2]]

WorkRow(f, t) ==
  [h \in {"field domain", "linh vuc", "trade type", "loai thuong mai"} |->
     CASE h = "field domain" -> f[1]
       [] h = "linh vuc" -> f[2]
       [] h = "trade type" -> t[1]
       [] h = "loai thuong mai" -> t[2]]

\* What the forms of /expert/live and /expert/work may send.
ClimateForm == {None, S_hot, S_LANH_padded}
GovForm == {None, S_monarchy, S_Dan_Chu}
ReligionForm == {None, S_buddhism, S_hoi_giao}
ModeForm == {None, S_business, S_job}
TradeForm == {None, <<>>, S_Export_padded, S_import}
DomainForm == {None, <<>>, S_tourism, S_CONG_NGHE}

\* Before a request: nothing is being evaluated.
EngineIdle ==
  /\ rules = << >>
  /\ info = << >>
  /\ context = << >>
  /\ facts = << >>
  /\ changed = FALSE
  /\ ruleIdx = 0
  /\ passes = 0
  /\ epc = "idle"

\* forward_chain_for_country, entered: facts = {}, changed = True.
Enter(rs, i, ctx) ==
  /\ rules' = rs
  /\ info' = i
  /\ context' = ctx
  /\ facts' = << >>
  /\ changed' = TRUE
  /\ ruleIdx' = 0
  /\ passes' = 0
  /\ epc' = "while"

\* expert_live calls the engine for a row of countries.csv.
CallLive ==
  /\ epc = "idle"
  /\ \E c \in ClimateCells, g \in GovCells, r \in ReligionCells,
        cf \in ClimateForm, gf \in GovForm, rf \in ReligionForm :
          Enter(LIVE_RULES, RowInfo(LiveRow(c, g, r)), expert_live_context(cf, gf, rf))
  /\ UNCHANGED notEngine

\* expert_work calls the engine for a row of countries.csv.
CallWork ==
  /\ epc = "idle"
  /\ \E f \in FieldCells, t \in TradeCells,
        m \in ModeForm, tf \in TradeForm, df \in DomainForm :
          Enter(WORK_RULES, RowInfo(WorkRow(f, t)), expert_work_context(m, tf, df))
  /\ UNCHANGED notEngine

\* `while changed:` entered: changed = False, the for loop starts.
WhileEnter ==
  /\ epc = "while"
  /\ changed
  /\ passes < MaxPasses
  /\ changed' = FALSE
  /\ ruleIdx' = 1
  /\ passes' = passes + 1
  /\ epc' = "for"
  /\ UNCHANGED << rules, info, context, facts >>
  /\ UNCHANGED notEngine

\* The iteration without `changed = True`: the loop ends after one pass.
ForStep_changed_never_set ==
  /\ epc = "for"
  /\ LET r == CallRule(rules[ruleIdx], "entity", info, context, facts)
     IN  /\ facts' = r.facts
         /\ changed' = changed
  /\ IF ruleIdx < Len(rules)
     THEN ruleIdx' = ruleIdx + 1 /\ epc' = "for"
     ELSE ruleIdx' = 0 /\ epc' = "while"
  /\ UNCHANGED << rules, info, context, passes >>
  /\ UNCHANGED notEngine

\* One iteration of `for rule in rules`: if rule(...): changed = True.
ForStep ==
  /\ epc = "for"
  /\ LET r == CallRule(rules[ruleIdx], "entity", info, context, facts)
     IN  /\ facts' = r.facts
         /\ changed' = (changed \/ r.ret)
  /\ IF ruleIdx < Len(rules)
     THEN ruleIdx' = ruleIdx + 1 /\ epc' = "for"
     ELSE ruleIdx' = 0 /\ epc' = "while"
  /\ UNCHANGED << rules, info, context, passes >>
  /\ UNCHANGED notEngine

\* `while changed:` left: return facts.
Return ==
  /\ epc = "while"
  /\ ~changed
  /\ epc' = "done"
  /\ UNCHANGED << rules, info, context, facts, changed, ruleIdx, passes >>
  /\ UNCHANGED notEngine

(***************************************************************************)
(* The engine called with the rules of a list in another order.            *)
(***************************************************************************)
\* The lists that hold the elements of s once each.
RuleOrders(s) ==
  {p \in [DOMAIN s -> {s[i] : i \in DOMAIN s}] :
     \A i, j \in DOMAIN s : i # j => p[i] # p[j]}

\* Cells that match the form under the English header, under the
\* Vietnamese header, and that do not match.
ClimateCellsFew == { << S_hot, <<>> >>, << <<>>, S_LANH_padded >>, << S_tundra, <<>> >> }
GovCellsFew == { << S_monarchy, <<>> >>, << <<>>, S_Dan_Chu >>, << S_theocracy, <<>> >> }
ReligionCellsFew == { << S_buddhism, <<>> >>, << <<>>, S_hoi_giao >>, << <<>>, <<>> >> }

\* forward_chain_for_country with a permutation of LIVE_RULES.
CallLivePermuted ==
  /\ epc = "idle"
  /\ \E rs \in RuleOrders(LIVE_RULES),
        c \in ClimateCellsFew, g \in GovCellsFew, r \in ReligionCellsFew,
        cf \in ClimateForm, gf \in GovForm, rf \in ReligionForm :
          Enter(rs, RowInfo(LiveRow(c, g, r)), expert_live_context(cf, gf, rf))
  /\ UNCHANGED notEngine

\* forward_chain_for_country with a permutation of WORK_RULES.
CallWorkPermuted ==
  /\ epc = "idle"
  /\ \E rs \in RuleOrders(WORK_RULES),
        f \in FieldCells, t \in TradeCells,
        m \in ModeForm, tf \in TradeForm, df \in DomainForm :
          Enter(rs, RowInfo(WorkRow(f, t)), expert_work_context(m, tf, df))
  /\ UNCHANGED notEngine

(***************************************************************************)
(* The normalizer, called on its own.                                      *)
(***************************************************************************)
\* str.upper() on the letters of the vocabularies; it builds inputs only.
upper_cp(c) ==
  IF c \in 97..122 THEN c - 32
  ELSE IF c \in 224..254 /\ c # 247 THEN c - 32
  ELSE IF (c \in 256..303 \/ c \in 7840..7929) /\ c % 2 = 1 THEN c - 1
  ELSE IF c \in {417, 432} THEN c - 1
  ELSE c

upper(s) == [i \in 1..Len(s) |-> upper_cp(s[i])]

\* The first letter in upper case.
Capital(s) == IF s = << >> THEN s ELSE << upper_cp(s[1]) >> \o Tail(s)

\* Blanks, a tab and a line feed around the text.
Pad(s) == << 32, 9 >> \o s \o << 32, 10 >>

\* The spellings of one value that differ in letter case and in surrounding
\* whitespace.
Variants(s) == {s, upper(s), Capital(s), Pad(s), Pad(upper(s))}

ItemsOf(fn) ==
  CASE fn = "normalize_government" -> GOV_MAP_ITEMS
    [] fn = "normalize_field" -> FIELD_MAP_ITEMS
    [] fn = "normalize_religion" -> RELIGION_MAP_ITEMS
    [] fn = "normalize_climate" -> CLIMATE_MAP_ITEMS
    [] fn = "normalize_trade" -> TRADE_MAP_ITEMS
    [] fn = "normalize_place_type" -> PLACE_MAP_ITEMS

NormalizeFunctions ==
  {"normalize_government", "normalize_field", "normalize_religion",
   "normalize_climate", "normalize_trade", "normalize_place_type"}

\* The tokens and labels of one vocabulary.
Vocabulary(fn) ==
  {ItemsOf(fn)[i][1] : i \in DOMAIN ItemsOf(fn)} \cup {ItemsOf(fn)[i][2] : i \in DOMAIN ItemsOf(fn)}

\* Trimmed lower-case texts: every vocabulary's tokens and labels, the empty
\* string and some words of no vocabulary.
Bases ==
  UNION {Vocabulary(fn) : fn \in NormalizeFunctions}
    \cup {<< >>, S_tundra, S_theocracy, S_shinto, S_mining, S_transit}

\* The arguments a normalize function is called with.
NormInputs == {None} \cup UNION {Variants(b) : b \in Bases}

NormIdle ==
  /\ nfun = "none"
  /\ nvalue = None
  /\ nresult = None
  /\ npc = "idle"

Called(fn, value, result) ==
  /\ npc = "idle"
  /\ nfun' = fn
  /\ nvalue' = value
  /\ nresult' = result
  /\ npc' = "done"
  /\ UNCHANGED notNorm

CallNormalizeGovernment ==
  \E v \in NormInputs : Called("normalize_government", v, normalize_government(v))

CallNormalizeField ==
  \E v \in NormInputs : Called("normalize_field", v, normalize_field(v))

CallNormalizeReligion ==
  \E v \in NormInputs : Called("normalize_religion", v, normalize_religion(v))

CallNormalizeClimate ==
  \E v \in NormInputs : Called("normalize_climate", v, normalize_climate(v))

CallNormalizeTrade ==
  \E v \in NormInputs : Called("normalize_trade", v, normalize_trade(v))

CallNormalizePlaceType ==
  \E v \in NormInputs : Called("normalize_place_type", v, normalize_place_type(v))

(***************************************************************************)
(* parse_html.  A document is the sequence of its div.category elements in *)
(* document order, each with what the function reads around it:            *)
(*   hasA        attr.find("a") finds an anchor                            *)
(*   aString     a_tag.string (None when the anchor holds more than text)  *)
(*   hasGrand    attr.parent.parent is an element                          *)
(*   row         the next sibling tr of the grandparent: "absent", "multi" *)
(*               (len(tr_tag) > 1), "td" (at most one child, a td) or      *)
(*               "bare" (at most one child, no td)                         *)
(*   cats        multi: the row's div.category elements, each with its     *)
(*               leading string (None if it starts with a tag) and the     *)
(*               texts of its spans                                        *)
(*   datas       multi: the texts of the row's div.category_data elements  *)
(*   dataCell    td / bare: the text of the div.category_data element,     *)
(*               None when there is no such element                        *)
(* An ordered dict is the sequence of its << key, value >> items.          *)
(***************************************************************************)
CRLF == << 13, 10 >>

RECURSIVE SplitFrom(_, _, _, _)
SplitFrom(s, i, cur, acc) ==
  IF i > Len(s)
  THEN IF cur = << >> THEN acc ELSE Append(acc, cur)
  ELSE IF IsSpace(s[i])
       THEN SplitFrom(s, i + 1, << >>, IF cur = << >> THEN acc ELSE Append(acc, cur))
       ELSE SplitFrom(s, i + 1, Append(cur, s[i]), acc)

\* str.split(): the runs of characters between whitespace.
split(s) == SplitFrom(s, 1, << >>, << >>)

RECURSIVE join(_, _)
\* sep.join(parts)
join(sep, parts) ==
  IF parts = << >> THEN << >>
  ELSE IF Len(parts) = 1 THEN parts[1]
  ELSE parts[1] \o sep \o join(sep, Tail(parts))

\* format_key: the words before the first word that is a lone hyphen.
format_key(key) ==
  LET words == split(key)
      stops == {i \in DOMAIN words : words[i] = << 45 >>}
      temp == IF stops = {} THEN words ELSE SubSeq(words, 1, SetMin(stops) - 1)
  IN  join(<< 32 >>, temp)

\* Tag.get_text(strip=True) of an element holding one text.
get_text_strip(text) == strip(text)

RECURSIVE CatContents(_)
\* Lines 470-480: for each div.category of the row, its leading string and
\* then its spans' texts, each kept when not blank.
CatContents(cats) ==
  IF cats = << >> THEN << >>
  ELSE LET div == Head(cats)
           first == IF div.first # None /\ strip(div.first) # << >>
                    THEN << strip(div.first) >> ELSE << >>
           spans == SelectSeq([i \in DOMAIN div.spans |-> get_text_strip(div.spans[i])],
                              LAMBDA t : t # << >>)
       IN  first \o spans \o CatContents(Tail(cats))

\* Lines 482-485: the texts of the row's div.category_data, when not blank.
DataContents(datas) ==
  SelectSeq([i \in DOMAIN datas |-> get_text_strip(datas[i])], LAMBDA t : t # << >>)

\* What stands for the AttributeError of a call on None.
AttributeError == << 0 - 2 >>

\* Lines 468-491: the data of one marker, AttributeError when the code
\* calls get_text on None.
MarkerData(m) ==
  IF m.row = "multi"
  THEN join(CRLF, CatContents(m.cats) \o DataContents(m.datas))
  ELSE IF m.dataCell = None THEN AttributeError
       ELSE get_text_strip(m.dataCell)

\* Ordered dict: key in d, d[key], d[key] = value.
OdHas(d, k) == \E i \in DOMAIN d : d[i][1] = k
OdGet(d, k) == d[CHOOSE i \in DOMAIN d : d[i][1] = k][2]
OdSet(d, k, v) ==
  IF OdHas(d, k)
  THEN [i \in DOMAIN d |-> IF d[i][1] = k THEN << k, v >> ELSE d[i]]
  ELSE Append(d, << k, v >>)

\* Lines 497-500 with the new data replacing the old.
Merge_overwriting(poss, title, data) == OdSet(poss, title, data)

\* Lines 497-500: new data is appended to the data the title already has.
Merge(poss, title, data) ==
  IF OdHas(poss, title)
  THEN OdSet(poss, title, OdGet(poss, title) \o CRLF \o data)
  ELSE OdSet(poss, title, data)

Marker(hasA, aString, hasGrand, row, cats, datas, dataCell) ==
  [hasA |-> hasA, aString |-> aString, hasGrand |-> hasGrand, row |-> row,
   cats |-> cats, datas |-> datas, dataCell |-> dataCell]

\* The markers documents are built from.
Markers ==
  { Marker(TRUE, S_Area, TRUE, "td", << >>, << >>, S_d1),
    Marker(TRUE, S_Area_note, TRUE, "bare", << >>, << >>, S_d2),
    Marker(TRUE, S_Area_spaced, TRUE, "multi",
           << [first |-> S_s1, spans |-> << S_s2, S_blank >>],
              [first |-> None, spans |-> << >>] >>,
           << S_d3, S_blank >>, None),
    Marker(TRUE, S_Land_use, TRUE, "td", << >>, << >>, S_d4),
    Marker(TRUE, S_Land_use, TRUE, "multi", << >>, << >>, None),
    Marker(TRUE, S_Area_hyphenated, TRUE, "td", << >>, << >>, S_d2),
    Marker(TRUE, S_hyphen_first, TRUE, "td", << >>, << >>, S_d3),
    Marker(TRUE, None, TRUE, "td", << >>, << >>, S_d4),
    Marker(FALSE, None, TRUE, "td", << >>, << >>, S_d1),
    Marker(TRUE, S_Area, TRUE, "absent", << >>, << >>, None),
    Marker(TRUE, S_Area, TRUE, "td", << >>, << >>, None),
    Marker(TRUE, S_Land_use, TRUE, "bare", << >>, << >>, None),
    Marker(TRUE, S_Area, FALSE, "absent", << >>, << >>, None) }

\* The div.category elements of the longest document.
MaxMarkers == 3

Documents == UNION {[1..n -> Markers] : n \in 0..MaxMarkers}

ParseIdle ==
  /\ doc = << >>
  /\ pos = 0
  /\ possibilities = << >>
  /\ ppc = "idle"

\* parse_html entered: possibilities = {}, the loop over find_all starts.
ParseCall ==
  /\ ppc = "idle"
  /\ \E d \in Documents : doc' = d
  /\ pos' = 1
  /\ possibilities' = << >>
  /\ ppc' = "loop"
  /\ UNCHANGED notParse

\* One iteration of `for attr in soup.find_all("div", class_="category")`.
ParseMarker ==
  /\ ppc = "loop"
  /\ pos <= Len(doc)
  /\ LET attr == doc[pos]
         data == MarkerData(attr)
         title == format_key(PyOr(attr.aString, << >>))
     IN  IF ~attr.hasA
         THEN pos' = pos + 1 /\ UNCHANGED << possibilities, ppc >>
         ELSE IF ~attr.hasGrand
         THEN ppc' = "raised" /\ UNCHANGED << possibilities, pos >>
         ELSE IF attr.row = "absent"
         THEN pos' = pos + 1 /\ UNCHANGED << possibilities, ppc >>
         ELSE IF data = AttributeError
         THEN ppc' = "raised" /\ UNCHANGED << possibilities, pos >>
         ELSE IF title = << >>
         THEN pos' = pos + 1 /\ UNCHANGED << possibilities, ppc >>
         ELSE /\ possibilities' = Merge(possibilities, title, data)
              /\ pos' = pos + 1
              /\ UNCHANGED ppc
  /\ UNCHANGED doc
  /\ UNCHANGED notParse

\* The loop is over: return possibilities.
ParseReturn ==
  /\ ppc = "loop"
  /\ pos > Len(doc)
  /\ ppc' = "done"
  /\ UNCHANGED << doc, pos, possibilities >>
  /\ UNCHANGED notParse

\* The command prefixes of do_search and the queries the form may send.
S_matches == <<59, 109, 97, 116, 99, 104, 101, 115>>   \* ";matches"
S_lst == <<59, 108, 115, 116>>   \* ";lst"
S_keys == <<59, 107, 101, 121, 115>>   \* ";keys"
Q_matches == <<59, 109, 97, 116, 99, 104, 101, 115>>   \* ";matches"
Q_MATCHES_padded == <<32, 32, 59, 77, 65, 84, 67, 72, 69, 83, 32, 9>>   \* "  ;MATCHES \t"
Q_matches_glued == <<59, 109, 97, 116, 99, 104, 101, 115, 97, 114, 101, 97>>   \* ";matchesarea"
Q_matches_area == <<59, 109, 97, 116, 99, 104, 101, 115, 32, 32, 65, 114, 101, 97, 115>>   \* ";matches  Areas"
Q_matches_none == <<59, 109, 97, 116, 99, 104, 101, 115, 32, 113, 113, 113, 113>>   \* ";matches qqqq"
Q_lst == <<59, 108, 115, 116>>   \* ";lst"
Q_keys == <<59, 75, 101, 121, 115, 32, 110, 111, 119>>   \* ";Keys now"
Q_fuzzy == <<84, 101, 114, 97, 110>>   \* "Teran"
Q_fuzzy_none == <<113, 113, 113, 113>>   \* "qqqq"
Q_empty == <<>>   \* ""

\* Lines of countryList.txt, country names of the form, page codes of countries.zip.
L_ch_Chad == <<99, 104, 32, 67, 104, 97, 100, 10>>   \* "ch Chad\n"
L_NG_Nigeria == <<78, 71, 32, 78, 105, 103, 101, 114, 105, 97, 10>>   \* "NG Nigeria\n"
L_ni_Niger == <<110, 105, 32, 78, 105, 103, 101, 114, 10>>   \* "ni Niger\n"
L_xx_Atlantis == <<120, 120, 32, 65, 116, 108, 97, 110, 116, 105, 115, 10>>   \* "xx Atlantis\n"
S_Chad == <<67, 104, 97, 100>>   \* "Chad"
S_Niger == <<32, 78, 105, 103, 101, 114, 32>>   \* " Niger "
S_Mars == <<77, 97, 114, 115>>   \* "Mars"
S_Atlantis == <<65, 116, 108, 97, 110, 116, 105, 115>>   \* "Atlantis"
S_ch == <<99, 104>>   \* "ch"
S_ng == <<110, 103>>   \* "ng"
S_ni == <<110, 105>>   \* "ni"

\* Category labels of a country page.
BaseLabels ==
  << <<65, 114, 101, 97>>,   \* "Area"
     <<67, 108, 105, 109, 97, 116, 101>>,   \* "Climate"
     <<84, 101, 114, 114, 97, 105, 110>>,   \* "Terrain"
     <<67, 97, 112, 105, 116, 97, 108>>,   \* "Capital"
     <<80, 111, 114, 116, 115>>,   \* "Ports"
     <<65, 105, 114, 112, 111, 114, 116, 115>>,   \* "Airports"
     <<76, 111, 99, 97, 116, 105, 111, 110>>,   \* "Location"
     <<80, 101, 111, 112, 108, 101>> >>   \* "People"

(***************************************************************************)
(* do_search.                                                              *)
(***************************************************************************)
\* `target in line`
Contains(line, target) ==
  \E i \in 0..(Len(line) - Len(target)) : SubSeq(line, i + 1, i + Len(target)) = target

\* str.startswith
startswith(s, prefix) == Len(s) >= Len(prefix) /\ SubSeq(s, 1, Len(prefix)) = prefix

\* The lines of countryList.txt.
countryList == << L_ch_Chad, L_NG_Nigeria, L_ni_Niger, L_xx_Atlantis >>

\* code_for_country: the first two characters of the first line that holds
\* the name; None when no line does.
code_for_country(target_country) ==
  LET hits == {i \in DOMAIN countryList : Contains(countryList[i], target_country)}
  IN  IF hits = {} THEN None ELSE SubSeq(countryList[SetMin(hits)], 1, 2)

\* The pages countries.zip holds.
ArchiveCodes == {S_ch, S_ng, S_ni}

\* What a call returns or raises.
Returned(value) == [raised |-> "", value |-> value]
Raised(exception) == [raised |-> exception, value |-> << >>]

\* parse_html_from_zip: the mapping parse_html extracts from the page, or the
\* exception that ends it: the KeyError of ZipFile.open for a page the
\* archive does not hold, or what parse_html raises.  parsed is what
\* parse_html makes of the pages of the archive.
parse_html_from_zip(parsed, country_code) ==
  IF country_code \notin ArchiveCodes THEN Raised("KeyError") ELSE parsed

\* get_vi_key_val that uses an entry only when it has both translations.
get_vi_key_val_both_or_none(country_code, key_en, val_en) ==
  LET country == IF lower(country_code) \in DOMAIN SEARCH_VI_CACHE
                 THEN SEARCH_VI_CACHE[lower(country_code)] ELSE << >>
      entry == IF key_en \in DOMAIN country THEN country[key_en] ELSE << >>
  IN  IF Truthy(DictGet(entry, "key_vi")) /\ Truthy(DictGet(entry, "val_vi"))
      THEN << entry["key_vi"], entry["val_vi"] >>
      ELSE << key_en, val_en >>

\* get_vi_key_val: the cached translations of a label and its value, each
\* falling back to the original.
get_vi_key_val(country_code, key_en, val_en) ==
  LET country == IF lower(country_code) \in DOMAIN SEARCH_VI_CACHE
                 THEN SEARCH_VI_CACHE[lower(country_code)] ELSE << >>
      entry == IF key_en \in DOMAIN country THEN country[key_en] ELSE << >>
      key_vi == PyOr(DictGet(entry, "key_vi"), key_en)
      val_vi == PyOr(DictGet(entry, "val_vi"), val_en)
  IN  << key_vi, val_vi >>

(***************************************************************************)
(* difflib.get_close_matches, as do_search uses it: SequenceMatcher.ratio  *)
(* of each candidate and the word (no junk; the quick ratios are upper     *)
(* bounds of ratio and filter nothing more), the candidates at or above    *)
(* the cutoff, and heapq.nlargest of the (ratio, candidate) pairs.  A      *)
(* ratio 2*M/T is kept as << 2*M, T >>.  Positions are 1-based and ranges  *)
(* inclusive.                                                              *)
(***************************************************************************)
RECURSIVE RunLen(_, _, _, _, _, _)
RunLen(a, i, ahi, b, j, bhi) ==
  IF i > ahi \/ j > bhi THEN 0
  ELSE IF a[i] # b[j] THEN 0
  ELSE 1 + RunLen(a, i + 1, ahi, b, j + 1, bhi)

\* SequenceMatcher.find_longest_match: the longest block, of those the one
\* that starts earliest in a, of those the one that starts earliest in b.
find_longest_match(a, b, alo, ahi, blo, bhi) ==
  LET runs == {<< i, j, RunLen(a, i, ahi, b, j, bhi) >> : i \in alo..ahi, j \in blo..bhi}
      sizes == {r[3] : r \in runs}
      best == IF sizes = {} THEN 0 ELSE SetMax(sizes)
      longest == {r \in runs : r[3] = best}
  IN  IF best = 0 THEN << alo, blo, 0 >>
      ELSE CHOOSE r \in longest :
             \A q \in longest : r[1] < q[1] \/ (r[1] = q[1] /\ r[2] <= q[2])

RECURSIVE MatchCount(_, _, _, _, _, _)
\* The characters in SequenceMatcher.get_matching_blocks.
MatchCount(a, b, alo, ahi, blo, bhi) ==
  LET m == find_longest_match(a, b, alo, ahi, blo, bhi)
  IN  IF m[3] = 0 THEN 0
      ELSE m[3] + MatchCount(a, b, alo, m[1] - 1, blo, m[2] - 1)
                + MatchCount(a, b, m[1] + m[3], ahi, m[2] + m[3], bhi)

\* SequenceMatcher.ratio: 2.0 * matches / length, 1.0 for two empty strings.
ratio(a, b) ==
  IF Len(a) + Len(b) = 0 THEN << 1, 1 >>
  ELSE << 2 * MatchCount(a, b, 1, Len(a), 1, Len(b)), Len(a) + Len(b) >>

\* a > b on str
StrGreater(a, b) ==
  LET n == IF Len(a) < Len(b) THEN Len(a) ELSE Len(b)
      d == {i \in 1..n : a[i] # b[i]}
  IN  IF d = {} THEN Len(a) > Len(b) ELSE a[SetMin(d)] > b[SetMin(d)]

\* (score, x) > (score, x) on the tuples of get_close_matches
ScoredGreater(p, q) ==
  \/ p[1][1] * q[1][2] > q[1][1] * p[1][2]
  \/ p[1][1] * q[1][2] = q[1][1] * p[1][2] /\ StrGreater(p[2], q[2])

RECURSIVE SortedDescending(_)
\* sorted(result, reverse=True)
SortedDescending(result) ==
  IF result = << >> THEN << >>
  ELSE LET tops == {i \in DOMAIN result :
                      \A j \in DOMAIN result : ~ScoredGreater(result[j], result[i])}
           t == SetMin(tops)
       IN  << result[t] >>
             \o SortedDescending([i \in 1..(Len(result) - 1) |->
                                    IF i < t THEN result[i] ELSE result[i + 1]])

\* list[:n]
Take(list, n) == SubSeq(list, 1, IF Len(list) < n THEN Len(list) ELSE n)

\* get_close_matches with every candidate kept, whatever its ratio.
get_close_matches_any_ratio(word, candidates, n, cutNum, cutDen) ==
  LET scored == [i \in DOMAIN candidates |-> << ratio(candidates[i], word), candidates[i] >>]
      best == Take(SortedDescending(scored), n)
  IN  [i \in DOMAIN best |-> best[i][2]]

\* get_close_matches(word, possibilities, n, cutoff), cutoff = cutNum/cutDen.
get_close_matches(word, candidates, n, cutNum, cutDen) ==
  LET scored == [i \in DOMAIN candidates |-> << ratio(candidates[i], word), candidates[i] >>]
      result == SelectSeq(scored, LAMBDA p : p[1][1] * cutDen >= cutNum * p[1][2])
      best == Take(SortedDescending(result), n)
  IN  [i \in DOMAIN best |-> best[i][2]]

Range(list) == {list[i] : i \in DOMAIN list}

RECURSIVE KeysOfMatches(_, _, _)
\* Lines 714-719 and 733-738: for each matched title, the first key with
\* that title that is not yet among the matches.
KeysOfMatches(matches_vi, vi_keys, matches) ==
  IF matches_vi = << >> THEN matches
  ELSE LET mv == Head(matches_vi)
           hits == {i \in DOMAIN vi_keys :
                      lower(vi_keys[i][2]) = mv /\ vi_keys[i][1] \notin Range(matches)}
       IN  KeysOfMatches(Tail(matches_vi), vi_keys,
                         IF hits = {} THEN matches
                         ELSE Append(matches, vi_keys[SetMin(hits)][1]))

\* keys[:20] with the cut left out.
FirstKeys_uncut(keys) == keys

\* Line 721: matches = keys[:20]
FirstKeys(keys) == Take(keys, 20)

\* The title of every key: {k: get_vi_key_val(code, k, "")[0] for k in keys}
ViKeys(code, keys) == [i \in DOMAIN keys |-> << keys[i], get_vi_key_val(code, keys[i], << >>)[1] >>]

Lowered(vi_keys) == [i \in DOMAIN vi_keys |-> lower(vi_keys[i][2])]

\* possibilities.get(m, "")
PossGet(poss, m) == IF OdHas(poss, m) THEN OdGet(poss, m) ELSE << >>

Redirect(message) == [kind |-> "redirect", flash |-> message, results |-> << >>]
Render(results) == [kind |-> "render", flash |-> "", results |-> results]
ServerError == [kind |-> "error", flash |-> "", results |-> << >>]

\* Lines 696-726: the commands ;lst, ;keys and ;matches.
SpecialResults(code, special, poss) ==
  LET keys == [i \in DOMAIN poss |-> poss[i][1]]
  IN  IF startswith(special, S_lst)
      THEN [i \in DOMAIN keys |-> get_vi_key_val(code, keys[i], OdGet(poss, keys[i]))]
      ELSE IF startswith(special, S_keys)
      THEN [i \in DOMAIN keys |-> << get_vi_key_val(code, keys[i], << >>)[1], << >> >>]
      ELSE LET spaces == {i \in DOMAIN special : special[i] = 32}
               pattern_vi == IF spaces = {} THEN << >>
                             ELSE strip(SubSeq(special, SetMin(spaces) + 1, Len(special)))
               vi_keys == ViKeys(code, keys)
               matches == IF pattern_vi # << >>
                          THEN KeysOfMatches(
                                 get_close_matches(lower(pattern_vi), Lowered(vi_keys), 20, 3, 10),
                                 vi_keys, << >>)
                          ELSE FirstKeys(keys)
           IN  [i \in DOMAIN matches |-> get_vi_key_val(code, matches[i], PossGet(poss, matches[i]))]

\* Lines 728-744: the default search.
FuzzyResults(code, query, poss) ==
  LET keys == [i \in DOMAIN poss |-> poss[i][1]]
      vi_keys == ViKeys(code, keys)
      matches == KeysOfMatches(
                   get_close_matches(lower(strip(query)), Lowered(vi_keys), 3, 6, 10),
                   vi_keys, << >>)
  IN  [i \in DOMAIN matches |-> get_vi_key_val(code, matches[i], OdGet(poss, matches[i]))]

\* do_search, from the form to the response.
do_search(country_form, query_raw, parsed) ==
  LET country == strip(country_form)
      query == lower(query_raw)
      code_found == code_for_country(country)
      code == lower(code_found)
      extracted == parse_html_from_zip(parsed, code)
      poss == extracted.value
      special == strip(query)
  IN  IF country = << >> THEN Redirect("Please select a country.")
      ELSE IF ~Truthy(code_found) THEN Redirect("Country not found in list.")
      ELSE IF extracted.raised # "" THEN ServerError
      ELSE IF \/ startswith(special, S_lst)
              \/ startswith(special, S_keys)
              \/ startswith(special, S_matches)
           THEN Render(SpecialResults(code, special, poss))
           ELSE Render(FuzzyResults(code, query, poss))

(***************************************************************************)
(* The pages and caches a request may meet.                                *)
(***************************************************************************)
\* The categories of the longest page.
MaxKeys == 22

\* The i-th label of a page: the category labels, numbered from the second
\* round on ("Area", ..., "People", "Area 1", ...).
Label(i) ==
  LET n == Len(BaseLabels)
  IN  IF i <= n THEN BaseLabels[i]
      ELSE BaseLabels[((i - 1) % n) + 1] \o << 32, 48 + ((i - 1) \div n) >>

\* The value under a label ("#Area").
ValueOf(key) == << 35 >> \o key

\* A translated text ("Vi Area").
Vi(text) == << 86, 105, 32 >> \o text

\* The mapping parse_html extracts from a page of n categories.
PageOf(n) == [i \in 1..n |-> << Label(i), ValueOf(Label(i)) >>]

\* What parse_html makes of the pages of the archive.
Pages == {Returned(PageOf(n)) : n \in 0..MaxKeys} \cup {Raised("AttributeError")}

Labels == {Label(i) : i \in 1..MaxKeys}

\* search_vi_cache.json: absent; every label of "ch" translated; entries of
\* "ch" with one part missing or empty; two labels of "ch" under one title.
CacheFull == [c \in {S_ch} |-> [k \in Labels |-> [f \in {"key_vi", "val_vi"} |->
                 IF f = "key_vi" THEN Vi(k) ELSE Vi(ValueOf(k))]]]
CachePartial ==
  [c \in {S_ch} |->
     [k \in {Label(1), Label(2), Label(3), Label(5)} |->
        IF k = Label(1) THEN [f \in {"key_vi"} |-> Vi(k)]
        ELSE IF k = Label(2) THEN [f \in {"val_vi"} |-> Vi(ValueOf(k))]
        ELSE IF k = Label(3) THEN [f \in {"key_vi", "val_vi"} |->
                                     IF f = "key_vi" THEN << >> ELSE Vi(ValueOf(k))]
        ELSE << >>]]
CacheShared ==
  [c \in {S_ch} |-> [k \in {Label(1), Label(2)} |-> [f \in {"key_vi"} |-> Vi(Label(1))]]]
Caches == {<< >>, CacheFull, CachePartial, CacheShared}

CountryForm == {<< >>, S_Chad, S_Niger, S_Mars, S_Atlantis}
QueryForm == {Q_matches, Q_MATCHES_padded, Q_matches_glued, Q_matches_area, Q_matches_none,
              Q_lst, Q_keys, Q_fuzzy, Q_fuzzy_none, Q_empty}

SearchIdle ==
  /\ SEARCH_VI_CACHE = << >>
  /\ request = [country |-> << >>, query |-> << >>]
  /\ page = Returned(<< >>)
  /\ response = [kind |-> "none", flash |-> "", results |-> << >>]
  /\ spc = "import"

\* Line 80: the module is loaded, SEARCH_VI_CACHE = _load_search_vi_cache().
LoadSearchViCache ==
  /\ spc = "import"
  /\ \E cache \in Caches : SEARCH_VI_CACHE' = cache
  /\ spc' = "serving"
  /\ UNCHANGED << request, page, response >>
  /\ UNCHANGED notSearch

\* POST /search
DoSearch ==
  /\ spc = "serving"
  /\ \E c \in CountryForm, q \in QueryForm, p \in Pages :
       /\ request' = [country |-> c, query |-> q]
       /\ page' = p
       /\ response' = do_search(c, q, p)
  /\ spc' = "answered"
  /\ UNCHANGED SEARCH_VI_CACHE
  /\ UNCHANGED notSearch

\* The response is sent; the next request may come.
SendResponse ==
  /\ spc = "answered"
  /\ request' = [country |-> << >>, query |-> << >>]
  /\ page' = Returned(<< >>)
  /\ response' = [kind |-> "none", flash |-> "", results |-> << >>]
  /\ spc' = "serving"
  /\ UNCHANGED SEARCH_VI_CACHE
  /\ UNCHANGED notSearch

(***************************************************************************)
(* get_vi_key_val called on its own, once the module is loaded.            *)
(***************************************************************************)
S_CH == << 67, 72 >>   \* "CH"

ViCodes == {S_ch, S_CH, S_ng, S_ni}
ViKeysEn == {Label(1), Label(2), Label(3), Label(4), Label(5), S_Mars}
ViValsEn == {<< >>, ValueOf(Label(1))}

ViIdle ==
  /\ vcall = [country_code |-> << >>, key_en |-> << >>, val_en |-> << >>]
  /\ vresult = << << >>, << >> >>

CallGetViKeyVal ==
  /\ spc = "serving"
  /\ \E c \in ViCodes, k \in ViKeysEn, v \in ViValsEn :
       /\ vcall' = [country_code |-> c, key_en |-> k, val_en |-> v]
       /\ vresult' = get_vi_key_val(c, k, v)
  /\ UNCHANGED searchVars
  /\ UNCHANGED << engineVars, normVars, parseVars, webVars, travelVars, raceVars >>

\* load_country_list: the names of the lines of countryList.txt, what
\* follows the first three characters, stripped; lines without a name are
\* left out.
load_country_list(lines) ==
  LET names == [i \in DOMAIN lines |-> strip(SubSeq(lines[i], 4, Len(lines[i])))]
  IN  SelectSeq(names, LAMBDA name : name # << >>)

\* User names and passwords of the forms.
U_admin == <<97, 100, 109, 105, 110>>   \* "admin"
U_Admin == <<65, 100, 109, 105, 110>>   \* "Admin"
U_user == <<117, 115, 101, 114>>   \* "user"
U_Bob == <<66, 111, 98>>   \* "Bob"
U_Bob_padded == <<32, 66, 111, 98, 32>>   \* " Bob "
U_BOB == <<66, 79, 66>>   \* "BOB"
PW_admin123 == <<97, 100, 109, 105, 110, 49, 50, 51>>   \* "admin123"
PW_user123 == <<117, 115, 101, 114, 49, 50, 51>>   \* "user123"
PW_pw1 == <<112, 119, 49>>   \* "pw1"
PW_pw2 == <<112, 119, 50>>   \* "pw2"
R_manager == <<109, 97, 110, 97, 103, 101, 114>>   \* "manager"
R_user == <<117, 115, 101, 114>>   \* "user"

\* Request paths.
P_static_prefix == <<47, 115, 116, 97, 116, 105, 99, 47>>   \* "/static/"
P_login == <<47, 108, 111, 103, 105, 110>>   \* "/login"
P_register == <<47, 114, 101, 103, 105, 115, 116, 101, 114>>   \* "/register"
P_home == <<47>>   \* "/"
P_logout == <<47, 108, 111, 103, 111, 117, 116>>   \* "/logout"
P_countries == <<47, 99, 111, 117, 110, 116, 114, 105, 101, 115>>   \* "/countries"
P_search == <<47, 115, 101, 97, 114, 99, 104>>   \* "/search"
P_expert == <<47, 101, 120, 112, 101, 114, 116>>   \* "/expert"
P_expert_live == <<47, 101, 120, 112, 101, 114, 116, 47, 108, 105, 118, 101>>   \* "/expert/live"
P_expert_work == <<47, 101, 120, 112, 101, 114, 116, 47, 119, 111, 114, 107>>   \* "/expert/work"
P_expert_travel == <<47, 101, 120, 112, 101, 114, 116, 47, 116, 114, 97, 118, 101, 108>>   \* "/expert/travel"
P_admin == <<47, 97, 100, 109, 105, 110>>   \* "/admin"
P_admin_migrate_vi == <<47, 97, 100, 109, 105, 110, 47, 109, 105, 103, 114, 97, 116, 101, 95, 118, 105>>   \* "/admin/migrate_vi"
P_admin_countries == <<47, 97, 100, 109, 105, 110, 47, 99, 111, 117, 110, 116, 114, 105, 101, 115>>   \* "/admin/countries"
P_admin_countries_delete == <<47, 97, 100, 109, 105, 110, 47, 99, 111, 117, 110, 116, 114, 105, 101, 115, 47, 100, 101, 108, 101, 116, 101>>   \* "/admin/countries/delete"
P_admin_tourism == <<47, 97, 100, 109, 105, 110, 47, 116, 111, 117, 114, 105, 115, 109>>   \* "/admin/tourism"
P_admin_tourism_delete == <<47, 97, 100, 109, 105, 110, 47, 116, 111, 117, 114, 105, 115, 109, 47, 100, 101, 108, 101, 116, 101>>   \* "/admin/tourism/delete"
P_static_css == <<47, 115, 116, 97, 116, 105, 99, 47, 115, 116, 121, 108, 101, 46, 99, 115, 115>>   \* "/static/style.css"
P_static_bare == <<47, 115, 116, 97, 116, 105, 99>>   \* "/static"
P_login_slash == <<47, 108, 111, 103, 105, 110, 47>>   \* "/login/"

\* Column names of countries.csv and Tourism.csv, before and after the migration.
H_Country == <<67, 111, 117, 110, 116, 114, 121>>   \* "Country"
H_Average_weather == <<65, 118, 101, 114, 97, 103, 101, 32, 119, 101, 97, 116, 104, 101, 114>>   \* "Average weather"
H_Quoc_gia == <<81, 117, 7889, 99, 32, 103, 105, 97>>   \* "Quoc gia"
H_Khi_hau_trung_binh == <<75, 104, 237, 32, 104, 7853, 117, 32, 116, 114, 117, 110, 103, 32, 98, 236, 110, 104>>   \* "Khi hau trung binh"
H_Name_of_place == <<78, 97, 109, 101, 32, 111, 102, 32, 112, 108, 97, 99, 101>>   \* "Name of place"
H_Type_of_place == <<84, 121, 112, 101, 32, 111, 102, 32, 112, 108, 97, 99, 101>>   \* "Type of place"
H_Diem_den == <<272, 105, 7875, 109, 32, 273, 7871, 110>>   \* "Diem den"
H_Loai_dia_diem == <<76, 111, 7841, 105, 32, 273, 7883, 97, 32, 273, 105, 7875, 109>>   \* "Loai dia diem"
H_GDP == <<71, 68, 80>>   \* "GDP"
F_original_key == <<95, 111, 114, 105, 103, 105, 110, 97, 108, 95, 107, 101, 121>>   \* "_original_key"
F_key == <<107, 101, 121>>   \* "key"

\* Keys and cells of the tables and of the admin forms.
K_Chad == <<67, 104, 97, 100>>   \* "Chad"
K_chad == <<99, 104, 97, 100>>   \* "chad"
K_CHAD_padded == <<32, 67, 72, 65, 68, 32>>   \* " CHAD "
K_CHAD == <<67, 72, 65, 68>>   \* "CHAD"
K_Mali == <<77, 97, 108, 105>>   \* "Mali"
K_Peru == <<80, 101, 114, 117>>   \* "Peru"
K_Hanoi == <<72, 97, 110, 111, 105>>   \* "Hanoi"
K_HANOI == <<72, 65, 78, 79, 73>>   \* "HANOI"
V_beach == <<98, 101, 97, 99, 104>>   \* "beach"
V_bien == <<98, 105, 7875, 110>>   \* "bien"
V_nong == <<110, 243, 110, 103>>   \* "nong"
V_1 == <<49>>   \* "1"

\* The column names _map_value knows.
C_type_of_government == <<116, 121, 112, 101, 32, 111, 102, 32, 103, 111, 118, 101, 114, 110, 109, 101, 110, 116>>   \* "type of government"
C_hinh_thuc_chinh_phu == <<104, 236, 110, 104, 32, 116, 104, 7913, 99, 32, 99, 104, 237, 110, 104, 32, 112, 104, 7911>>   \* "hinh thuc chinh phu"
C_field_domain == <<102, 105, 101, 108, 100, 32, 100, 111, 109, 97, 105, 110>>   \* "field domain"
C_linh_vuc == <<108, 297, 110, 104, 32, 118, 7921, 99>>   \* "linh vuc"
C_major_religion == <<109, 97, 106, 111, 114, 32, 114, 101, 108, 105, 103, 105, 111, 110>>   \* "major religion"
C_ton_giao_chinh == <<116, 244, 110, 32, 103, 105, 225, 111, 32, 99, 104, 237, 110, 104>>   \* "ton giao chinh"
C_average_weather == <<97, 118, 101, 114, 97, 103, 101, 32, 119, 101, 97, 116, 104, 101, 114>>   \* "average weather"
C_khi_hau_trung_binh == <<107, 104, 237, 32, 104, 7853, 117, 32, 116, 114, 117, 110, 103, 32, 98, 236, 110, 104>>   \* "khi hau trung binh"
C_trade_type == <<116, 114, 97, 100, 101, 32, 116, 121, 112, 101>>   \* "trade type"
C_loai_thuong_mai == <<108, 111, 7841, 105, 32, 116, 104, 432, 417, 110, 103, 32, 109, 7841, 105>>   \* "loai thuong mai"
C_type_of_place == <<116, 121, 112, 101, 32, 111, 102, 32, 112, 108, 97, 99, 101>>   \* "type of place"
C_loai_dia_diem == <<108, 111, 7841, 105, 32, 273, 7883, 97, 32, 273, 105, 7875, 109>>   \* "loai dia diem"

\* COUNTRIES_HEADER_MAP, in the order of the dict literal: << column, translated column >>.
COUNTRIES_HEADER_MAP_ITEMS ==
  << << <<67, 111, 117, 110, 116, 114, 121>>,   \* "Country"
        <<81, 117, 7889, 99, 32, 103, 105, 97>> >>,
     << <<84, 121, 112, 101, 32, 111, 102, 32, 71, 111, 118, 101, 114, 110, 109, 101, 110, 116>>,   \* "Type of Government"
        <<72, 236, 110, 104, 32, 116, 104, 7913, 99, 32, 99, 104, 237, 110, 104, 32, 112, 104, 7911>> >>,
     << <<70, 105, 101, 108, 100, 32, 68, 111, 109, 97, 105, 110>>,   \* "Field Domain"
        <<76, 297, 110, 104, 32, 118, 7921, 99>> >>,
     << <<77, 97, 106, 111, 114, 32, 82, 101, 108, 105, 103, 105, 111, 110>>,   \* "Major Religion"
        <<84, 244, 110, 32, 103, 105, 225, 111, 32, 99, 104, 237, 110, 104>> >>,
     << <<71, 68, 80>>,   \* "GDP"
        <<71, 68, 80>> >>,
     << <<80, 111, 112, 117, 108, 97, 116, 105, 111, 110, 32, 68, 101, 110, 115, 105, 116, 121>>,   \* "Population Density"
        <<77, 7853, 116, 32, 273, 7897, 32, 100, 226, 110, 32, 115, 7889>> >>,
     << <<65, 118, 101, 114, 97, 103, 101, 32, 119, 101, 97, 116, 104, 101, 114>>,   \* "Average weather"
        <<75, 104, 237, 32, 104, 7853, 117, 32, 116, 114, 117, 110, 103, 32, 98, 236, 110, 104>> >>,
     << <<73, 109, 112, 111, 114, 116>>,   \* "Import"
        <<78, 104, 7853, 112, 32, 107, 104, 7849, 117>> >>,
     << <<69, 120, 112, 111, 114, 116>>,   \* "Export"
        <<88, 117, 7845, 116, 32, 107, 104, 7849, 117>> >>,
     << <<84, 114, 97, 100, 101, 32, 116, 121, 112, 101>>,   \* "Trade type"
        <<76, 111, 7841, 105, 32, 116, 104, 432, 417, 110, 103, 32, 109, 7841, 105>> >> >>

\* TOURISM_HEADER_MAP, in the order of the dict literal: << column, translated column >>.
TOURISM_HEADER_MAP_ITEMS ==
  << << <<78, 97, 109, 101, 32, 111, 102, 32, 112, 108, 97, 99, 101>>,   \* "Name of place"
        <<272, 105, 7875, 109, 32, 273, 7871, 110>> >>,
     << <<67, 111, 117, 110, 116, 114, 121>>,   \* "Country"
        <<81, 117, 7889, 99, 32, 103, 105, 97>> >>,
     << <<66, 117, 100, 103, 101, 116>>,   \* "Budget"
        <<78, 103, 226, 110, 32, 115, 225, 99, 104>> >>,
     << <<84, 121, 112, 101, 32, 111, 102, 32, 112, 108, 97, 99, 101>>,   \* "Type of place"
        <<76, 111, 7841, 105, 32, 273, 7883, 97, 32, 273, 105, 7875, 109>> >> >>

(***************************************************************************)
(* The web application: the credential table, the session of a client,     *)
(* the two CSV files, and one request at a time from before_request to the *)
(* response.                                                               *)
(***************************************************************************)
\* werkzeug generate_password_hash / check_password_hash: a hash opens for
\* the password it was made from and for no other.
generate_password_hash(password) == << 0, password >>
check_password_hash(pwhash, password) == pwhash = generate_password_hash(password)

\* USERS as the module defines it.
USERS_initial ==
  [u \in {U_admin, U_user} |->
     IF u = U_admin
     THEN [password_hash |-> generate_password_hash(PW_admin123), role |-> R_manager]
     ELSE [password_hash |-> generate_password_hash(PW_user123), role |-> R_user]]

EXEMPT_PATHS == {P_login, P_register}

\* require_login_globally: TRUE when it answers the request itself, with a
\* redirect to the login page.
require_login_globally(request_path, sess) ==
  LET path == PyOr(request_path, P_home)
  IN  IF startswith(path, P_static_prefix) THEN FALSE
      ELSE IF path \in EXEMPT_PATHS THEN FALSE
      ELSE ~Truthy(DictGet(sess, "user"))

\* The wrappers without the test of the role.
role_required_login_only(required_role, sess) ==
  IF ~Truthy(DictGet(sess, "user")) THEN "redirect_login" ELSE "run"

\* @login_required over @role_required(required_role): what the wrappers
\* let happen.
role_required(required_role, sess) ==
  IF ~Truthy(DictGet(sess, "user")) THEN "redirect_login"
  ELSE IF DictGet(sess, "role") # required_role THEN "denied"
  ELSE "run"

\* The routes of the application: << method, path, view function >>.
Routes ==
  { << "GET", P_home, "home" >>,
    << "GET", P_login, "login" >>,
    << "POST", P_login, "do_login" >>,
    << "GET", P_register, "register" >>,
    << "POST", P_register, "do_register" >>,
    << "GET", P_logout, "logout" >>,
    << "GET", P_countries, "countries" >>,
    << "GET", P_search, "search_page" >>,
    << "POST", P_search, "do_search" >>,
    << "GET", P_expert, "expert_page" >>,
    << "POST", P_expert_live, "expert_live" >>,
    << "POST", P_expert_work, "expert_work" >>,
    << "POST", P_expert_travel, "expert_travel" >>,
    << "POST", P_admin_migrate_vi, "admin_migrate_vi" >>,
    << "GET", P_admin, "admin_dashboard" >>,
    << "GET", P_admin_countries, "admin_countries" >>,
    << "POST", P_admin_countries_delete, "admin_countries_delete" >>,
    << "POST", P_admin_countries, "admin_countries_save" >>,
    << "GET", P_admin_tourism, "admin_tourism" >>,
    << "POST", P_admin_tourism_delete, "admin_tourism_delete" >>,
    << "POST", P_admin_tourism, "admin_tourism_save" >> }

\* The view function Flask dispatches to: "static" under /static/, "none"
\* when no route matches (404, 405).
ViewOf(method, path) ==
  IF \E r \in Routes : r[1] = method /\ r[2] = path
  THEN (CHOOSE r \in Routes : r[1] = method /\ r[2] = path)[3]
  ELSE IF method = "GET" /\ startswith(path, P_static_prefix) THEN "static"
  ELSE "none"

\* The views that only read: pages, forms and the handlers whose work is
\* modelled on its own above.
OpenViews == {"home", "login", "register", "countries", "search_page", "do_search",
              "expert_page", "expert_live", "expert_work", "expert_travel", "static", "none"}
ManagerViews == {"admin_migrate_vi", "admin_dashboard", "admin_countries", "admin_countries_delete",
                 "admin_countries_save", "admin_tourism", "admin_tourism_delete", "admin_tourism_save"}

Requested(method, path, form) == [method |-> method, path |-> path, form |-> form]

\* Responses: the redirect to the login page of before_request or of a
\* wrapper, the permission-denied flash with its redirect, or what the view
\* function named by `by` answered.
RedirectLogin(by) == [kind |-> "redirect_login", by |-> by, outcome |-> ""]
Denied == [kind |-> "denied", by |-> "role_required", outcome |-> ""]
Answered(view, outcome) == [kind |-> "view", by |-> view, outcome |-> outcome]

NoForm == << >>

(***************************************************************************)
(* The CSV files.  A file is the sequence of its rows, the header first;   *)
(* csv.writer and csv.reader give back the rows they were given (an empty  *)
(* row is a blank line and is read as an empty row).                       *)
(***************************************************************************)
read_csv_file(content) ==
  IF content = << >> THEN [header |-> << >>, rows |-> << >>]
  ELSE [header |-> Head(content), rows |-> Tail(content)]

write_csv_file(header, rows) == << header >> \o rows

COUNTRIES_HEADER_MAP == DictOf(COUNTRIES_HEADER_MAP_ITEMS)
TOURISM_HEADER_MAP == DictOf(TOURISM_HEADER_MAP_ITEMS)

\* mapping.get(h, h)
GetOrSelf(mapping, h) == IF h \in DOMAIN mapping THEN mapping[h] ELSE h

\* _map_header: the translated names of the columns that have a name.
_map_header(header, mapping) ==
  LET named == SelectSeq(header, LAMBDA h : h # << >>)
  IN  [i \in DOMAIN named |-> GetOrSelf(mapping, named[i])]

\* _map_value: the label of a value of a controlled vocabulary, by the
\* column it stands in; any other value as it is.
_map_value(col_name_vi_or_en, value) ==
  LET c == _norm(col_name_vi_or_en)
      v == _norm(value)
      Label2(map, rev) ==
        IF v = << >> THEN value
        ELSE IF v \in DOMAIN map THEN map[v]
        ELSE LET token == IF v \in DOMAIN rev THEN rev[v] ELSE << >>
             IN  IF token \in DOMAIN map THEN map[token] ELSE value
  IN  IF c \in {C_type_of_government, C_hinh_thuc_chinh_phu} THEN Label2(GOV_MAP, GOV_REV)
      ELSE IF c \in {C_field_domain, C_linh_vuc} THEN Label2(FIELD_MAP, FIELD_REV)
      ELSE IF c \in {C_major_religion, C_ton_giao_chinh} THEN Label2(RELIGION_MAP, RELIGION_REV)
      ELSE IF c \in {C_average_weather, C_khi_hau_trung_binh} THEN Label2(CLIMATE_MAP, CLIMATE_REV)
      ELSE IF c \in {C_trade_type, C_loai_thuong_mai} THEN Label2(TRADE_MAP, TRADE_REV)
      ELSE IF c \in {C_type_of_place, C_loai_dia_diem} THEN Label2(PLACE_MAP, PLACE_REV)
      ELSE value

\* (r + [""] * n)[:n]
Fit(r, n) == [i \in 1..n |-> IF i <= Len(r) THEN r[i] ELSE << >>]

\* Lines 971-986 and 989-1003: one file of admin_migrate_vi.  h is the
\* header the values are read against: without its unnamed columns for
\* countries.csv, as it is for Tourism.csv.
Migrated(content, mapping, dropUnnamed) ==
  LET f == read_csv_file(content)
      h == IF dropUnnamed THEN SelectSeq(f.header, LAMBDA x : x # << >>) ELSE f.header
      new_h == _map_header(h, mapping)
      new_rows == [k \in DOMAIN f.rows |->
                     LET r == Fit(f.rows[k], Len(new_h))
                     IN  [idx \in DOMAIN r |->
                            LET col_en == IF idx <= Len(h) THEN h[idx] ELSE << >>
                            IN  _map_value(GetOrSelf(mapping, col_en), r[idx])]]
  IN  IF f.header = << >> THEN content ELSE write_csv_file(new_h, new_rows)

\* The keys of the non-empty rows, lower-cased: [r[0].lower() for r in rows if r]
KeysLower(rows) ==
  LET full == SelectSeq(rows, LAMBDA r : r # << >>)
  IN  {lower(full[i][1]) : i \in DOMAIN full}

Saved(content, outcome) == [content |-> content, outcome |-> outcome]

\* admin_countries_save with the test of a changed key left out.
admin_save_key_change_unchecked(content, form) ==
  LET f == read_csv_file(content)
      header == f.header
      rows == f.rows
      original_key == strip(PyOr(DictGet(form, F_original_key), << >>))
      new_row == [i \in DOMAIN header |-> strip(PyOr(DictGet(form, header[i]), << >>))]
      key == strip(new_row[1])
      found == {i \in DOMAIN rows : rows[i] # << >> /\ lower(rows[i][1]) = lower(original_key)}
  IN  IF header = << >> THEN Saved(content, "no_header")
      ELSE IF key = << >> THEN Saved(content, "key_required")
      ELSE IF original_key = << >>
      THEN IF lower(key) \in KeysLower(rows) THEN Saved(content, "exists")
           ELSE Saved(write_csv_file(header, Append(rows, new_row)), "updated")
      ELSE IF found # {}
      THEN Saved(write_csv_file(header, [i \in DOMAIN rows |->
                                           IF i = SetMin(found) THEN new_row ELSE rows[i]]),
                 "updated")
      ELSE Saved(write_csv_file(header, Append(rows, new_row)), "updated")

\* admin_countries_save and admin_tourism_save (the same body on the two
\* files): the file after the request and how it was answered.
admin_save(content, form) ==
  LET f == read_csv_file(content)
      header == f.header
      rows == f.rows
      original_key == strip(PyOr(DictGet(form, F_original_key), << >>))
      new_row == [i \in DOMAIN header |-> strip(PyOr(DictGet(form, header[i]), << >>))]
      key == strip(new_row[1])
      found == {i \in DOMAIN rows : rows[i] # << >> /\ lower(rows[i][1]) = lower(original_key)}
  IN  IF header = << >> THEN Saved(content, "no_header")
      ELSE IF key = << >> THEN Saved(content, "key_required")
      ELSE IF original_key = << >>
      THEN IF lower(key) \in KeysLower(rows) THEN Saved(content, "exists")
           ELSE Saved(write_csv_file(header, Append(rows, new_row)), "updated")
      ELSE IF lower(key) # lower(original_key) /\ lower(key) \in KeysLower(rows)
      THEN Saved(content, "cannot_change")
      ELSE IF found # {}
      THEN Saved(write_csv_file(header, [i \in DOMAIN rows |->
                                           IF i = SetMin(found) THEN new_row ELSE rows[i]]),
                 "updated")
      ELSE Saved(write_csv_file(header, Append(rows, new_row)), "updated")

\* admin_countries_delete and admin_tourism_delete.
admin_delete(content, form) ==
  LET f == read_csv_file(content)
      key == strip(PyOr(DictGet(form, F_key), << >>))
      new_rows == SelectSeq(f.rows, LAMBDA r : ~(r # << >> /\ lower(strip(r[1])) = lower(key)))
  IN  IF f.header = << >> THEN Saved(content, "no_header")
      ELSE IF key = << >> THEN Saved(content, "key_required")
      ELSE IF Len(new_rows) = Len(f.rows) THEN Saved(content, "not_found")
      ELSE Saved(write_csv_file(f.header, new_rows), "deleted")

(***************************************************************************)
(* Requests.                                                               *)
(***************************************************************************)
\* The rows of the longest file, the header included.
MaxRows == 4

CsvFiles == {"countries.csv", "Tourism.csv"}

\* The files the application is started on.
InitialFiles ==
  { [f \in CsvFiles |->
       IF f = "countries.csv"
       THEN << << H_Country, H_GDP >>, << K_Chad, V_1 >>, << K_Mali, V_1 >> >>
       ELSE << << H_Name_of_place, H_Type_of_place >>, << K_Hanoi, V_beach >> >>],
    [f \in CsvFiles |->
       IF f = "countries.csv"
       THEN << << H_Country, H_GDP >>, << K_Chad, V_1 >>, << >> >>
       ELSE << >>],
    [f \in CsvFiles |->
       IF f = "countries.csv"
       THEN << >>
       ELSE << << H_Name_of_place, H_Type_of_place >> >>] }

LoginForms ==
  {[n \in {"username", "password"} |-> IF n = "username" THEN u ELSE p] :
     u \in {None, U_admin, U_Admin, U_user, U_Bob_padded, U_BOB},
     p \in {None, PW_admin123, PW_user123, PW_pw1}}

RegisterForms ==
  {[n \in {"username", "password", "password2"} |->
      IF n = "username" THEN u ELSE IF n = "password" THEN p ELSE q] :
     u \in {<< >>, U_admin, U_Admin, U_Bob_padded, U_BOB},
     p \in {<< >>, PW_pw1},
     q \in {PW_pw1, PW_pw2}}

\* The form of the admin page of a file: _original_key (absent when a
\* record is created), the key under the first column, a value under the
\* other columns.
SaveForm(header, original_key, key, value) ==
  [n \in (IF original_key = None THEN {} ELSE {F_original_key})
           \cup {header[i] : i \in DOMAIN header} |->
     IF n = F_original_key THEN original_key
     ELSE IF n = header[1] THEN key
     ELSE value]

DeleteForm(key) == [n \in (IF key = None THEN {} ELSE {F_key}) |-> key]

CountriesSaveInputs == {<< o, k >> : o \in {None, K_chad, K_Peru}, k \in {<< >>, K_CHAD_padded, K_Mali}}
TourismSaveInputs == {<< o, k >> : o \in {None, K_Hanoi}, k \in {K_Hanoi, K_HANOI}}
CountriesDeleteInputs == {None, K_chad, K_Peru}
TourismDeleteInputs == {K_HANOI}

\* Requests answered by a view that only reads.
PageRequests ==
  {<< r[1], r[2] >> : r \in {x \in Routes : x[3] \in OpenViews}}
    \cup {<< "GET", P_static_css >>, << "GET", P_static_bare >>, << "GET", P_login_slash >>,
          << "GET", P_admin_migrate_vi >>}

AdminPageRequests == {<< "GET", P_admin >>, << "GET", P_admin_countries >>, << "GET", P_admin_tourism >>}

WebIdle ==
  /\ USERS = USERS_initial
  /\ session = << >>
  /\ files = [f \in CsvFiles |-> << >>]
  /\ wrequest = Requested("", << >>, NoForm)
  /\ wresponse = [kind |-> "none", by |-> "", outcome |-> ""]
  /\ wpc = "deploy"

\* The application is started in a directory that holds the two files.
InstallCsvFiles ==
  /\ wpc = "deploy"
  /\ \E fs \in InitialFiles : files' = fs
  /\ wpc' = "serving"
  /\ UNCHANGED << USERS, session, wrequest, wresponse >>
  /\ UNCHANGED notWeb

\* A request through before_request; body is what the view does when the
\* request reaches it.
Through(method, path, form, body) ==
  /\ wrequest' = Requested(method, path, form)
  /\ IF require_login_globally(path, session)
     THEN /\ wresponse' = RedirectLogin("require_login_globally")
          /\ UNCHANGED << USERS, session, files >>
     ELSE body

\* A request through before_request and the wrappers of a manager view.
ThroughManager(method, path, form, body) ==
  Through(method, path, form,
          IF role_required(R_manager, session) = "redirect_login"
          THEN /\ wresponse' = RedirectLogin("login_required")
               /\ UNCHANGED << USERS, session, files >>
          ELSE IF role_required(R_manager, session) = "denied"
          THEN /\ wresponse' = Denied
               /\ UNCHANGED << USERS, session, files >>
          ELSE body)

\* GET and POST requests to the pages, the static files and unknown paths.
ViewPage ==
  /\ wpc = "serving"
  /\ \E r \in PageRequests :
       Through(r[1], r[2], NoForm,
               /\ wresponse' = Answered(ViewOf(r[1], r[2]), "")
               /\ UNCHANGED << USERS, session, files >>)
  /\ wpc' = "answered"
  /\ UNCHANGED notWeb

\* POST /login
DoLogin ==
  /\ wpc = "serving"
  /\ \E form \in LoginForms :
       LET username == strip(PyOr(form["username"], << >>))
           password == PyOr(form["password"], << >>)
           known == username \in DOMAIN USERS
       IN  Through("POST", P_login, form,
                   IF ~known \/ ~check_password_hash(USERS[username].password_hash, password)
                   THEN /\ wresponse' = Answered("do_login", "invalid")
                        /\ UNCHANGED << USERS, session, files >>
                   ELSE /\ session' = [k \in {"user", "role"} |->
                                         IF k = "user" THEN username ELSE USERS[username].role]
                        /\ wresponse' = Answered("do_login", "logged_in")
                        /\ UNCHANGED << USERS, files >>)
  /\ wpc' = "answered"
  /\ UNCHANGED notWeb

\* do_register without the test of the existing usernames.
DoRegister_existing_unchecked ==
  /\ wpc = "serving"
  /\ \E form \in RegisterForms :
       LET username == strip(PyOr(form["username"], << >>))
           password == PyOr(form["password"], << >>)
           password2 == PyOr(form["password2"], << >>)
           existing_usernames == {lower(u) : u \in DOMAIN USERS}
       IN  Through("POST", P_register, form,
                   IF username = << >> \/ password = << >>
                   THEN /\ wresponse' = Answered("do_register", "incomplete")
                        /\ UNCHANGED << USERS, session, files >>
                   ELSE IF password # password2
                   THEN /\ wresponse' = Answered("do_register", "mismatch")
                        /\ UNCHANGED << USERS, session, files >>
                   ELSE /\ USERS' = DictSet(USERS, username,
                                            [password_hash |-> generate_password_hash(password),
                                             role |-> R_user])
                        /\ session' = [k \in {"user", "role"} |->
                                         IF k = "user" THEN username ELSE R_user]
                        /\ wresponse' = Answered("do_register", "registered")
                        /\ UNCHANGED files)
  /\ wpc' = "answered"
  /\ UNCHANGED notWeb

\* POST /register
DoRegister ==
  /\ wpc = "serving"
  /\ \E form \in RegisterForms :
       LET username == strip(PyOr(form["username"], << >>))
           password == PyOr(form["password"], << >>)
           password2 == PyOr(form["password2"], << >>)
           existing_usernames == {lower(u) : u \in DOMAIN USERS}
       IN  Through("POST", P_register, form,
                   IF username = << >> \/ password = << >>
                   THEN /\ wresponse' = Answered("do_register", "incomplete")
                        /\ UNCHANGED << USERS, session, files >>
                   ELSE IF password # password2
                   THEN /\ wresponse' = Answered("do_register", "mismatch")
                        /\ UNCHANGED << USERS, session, files >>
                   ELSE IF lower(username) \in existing_usernames
                   THEN /\ wresponse' = Answered("do_register", "taken")
                        /\ UNCHANGED << USERS, session, files >>
                   ELSE /\ USERS' = DictSet(USERS, username,
                                            [password_hash |-> generate_password_hash(password),
                                             role |-> R_user])
                        /\ session' = [k \in {"user", "role"} |->
                                         IF k = "user" THEN username ELSE R_user]
                        /\ wresponse' = Answered("do_register", "registered")
                        /\ UNCHANGED files)
  /\ wpc' = "answered"
  /\ UNCHANGED notWeb

\* GET /logout
Logout ==
  /\ wpc = "serving"
  /\ Through("GET", P_logout, NoForm,
             /\ session' = << >>
             /\ wresponse' = Answered("logout", "")
             /\ UNCHANGED << USERS, files >>)
  /\ wpc' = "answered"
  /\ UNCHANGED notWeb

\* GET /admin, /admin/countries, /admin/tourism
AdminPage ==
  /\ wpc = "serving"
  /\ \E r \in AdminPageRequests :
       ThroughManager(r[1], r[2], NoForm,
                      /\ wresponse' = Answered(ViewOf(r[1], r[2]), "")
                      /\ UNCHANGED << USERS, session, files >>)
  /\ wpc' = "answered"
  /\ UNCHANGED notWeb

\* POST /admin/migrate_vi
AdminMigrateVi ==
  /\ wpc = "serving"
  /\ ThroughManager("POST", P_admin_migrate_vi, NoForm,
                    /\ files' = [f \in CsvFiles |->
                                   IF f = "countries.csv"
                                   THEN Migrated(files[f], COUNTRIES_HEADER_MAP, TRUE)
                                   ELSE Migrated(files[f], TOURISM_HEADER_MAP, FALSE)]
                    /\ wresponse' = Answered("admin_migrate_vi", "")
                    /\ UNCHANGED << USERS, session >>)
  /\ wpc' = "answered"
  /\ UNCHANGED notWeb

\* A save or delete request on a file: result is what the view makes of
\* the file.
OnFile(method, path, form, view, file, result) ==
  ThroughManager(method, path, form,
                 /\ files' = [files EXCEPT ![file] = result.content]
                 /\ wresponse' = Answered(view, result.outcome)
                 /\ UNCHANGED << USERS, session >>)

\* POST /admin/countries
AdminCountriesSave ==
  /\ wpc = "serving"
  /\ Len(files["countries.csv"]) <= MaxRows
  /\ \E in \in CountriesSaveInputs :
       LET form == SaveForm(read_csv_file(files["countries.csv"]).header, in[1], in[2], V_1)
       IN  OnFile("POST", P_admin_countries, form, "admin_countries_save", "countries.csv",
                  admin_save(files["countries.csv"], form))
  /\ wpc' = "answered"
  /\ UNCHANGED notWeb

\* POST /admin/countries/delete
AdminCountriesDelete ==
  /\ wpc = "serving"
  /\ \E key \in CountriesDeleteInputs :
       OnFile("POST", P_admin_countries_delete, DeleteForm(key), "admin_countries_delete",
              "countries.csv", admin_delete(files["countries.csv"], DeleteForm(key)))
  /\ wpc' = "answered"
  /\ UNCHANGED notWeb

\* POST /admin/tourism
AdminTourismSave ==
  /\ wpc = "serving"
  /\ Len(files["Tourism.csv"]) <= MaxRows
  /\ \E in \in TourismSaveInputs :
       LET form == SaveForm(read_csv_file(files["Tourism.csv"]).header, in[1], in[2], V_beach)
       IN  OnFile("POST", P_admin_tourism, form, "admin_tourism_save", "Tourism.csv",
                  admin_save(files["Tourism.csv"], form))
  /\ wpc' = "answered"
  /\ UNCHANGED notWeb

\* POST /admin/tourism/delete
AdminTourismDelete ==
  /\ wpc = "serving"
  /\ \E key \in TourismDeleteInputs :
       OnFile("POST", P_admin_tourism_delete, DeleteForm(key), "admin_tourism_delete",
              "Tourism.csv", admin_delete(files["Tourism.csv"], DeleteForm(key)))
  /\ wpc' = "answered"
  /\ UNCHANGED notWeb

\* The response is sent; the next request may come.
SendWebResponse ==
  /\ wpc = "answered"
  /\ wrequest' = Requested("", << >>, NoForm)
  /\ wresponse' = [kind |-> "none", by |-> "", outcome |-> ""]
  /\ wpc' = "serving"
  /\ UNCHANGED << USERS, session, files >>
  /\ UNCHANGED notWeb

(***************************************************************************)
(* admin_countries_save in two threads of the server (app.run serves each  *)
(* request in a thread of its own).  The handler reads the file, works on  *)
(* its own header and rows, opens the file for writing, which empties it,  *)
(* and writes its rows when the file is closed.                            *)
(***************************************************************************)
Threads == {1, 2}

\* csv.writer: the cells of a row joined by commas, a line end after each
\* row (cells without comma, quote or line end, which are written as they
\* are).
RECURSIVE CsvText(_)
CsvText(content) ==
  IF content = << >> THEN << >>
  ELSE join(<< 44 >>, Head(content)) \o CRLF \o CsvText(Tail(content))

\* One line of csv.reader: the cells between the commas; no cell for a
\* blank line.
RECURSIVE CsvCells(_, _, _)
CsvCells(line, idx, cur) ==
  IF line = << >> THEN << >>
  ELSE IF idx > Len(line) THEN << cur >>
  ELSE IF line[idx] = 44 THEN << cur >> \o CsvCells(line, idx + 1, << >>)
  ELSE CsvCells(line, idx + 1, Append(cur, line[idx]))

\* csv.reader on a file opened with newline="": a row for each line, a
\* line ending with \r\n, \r or \n, the last one also without line end.
RECURSIVE CsvRows(_, _, _)
CsvRows(text, idx, cur) ==
  IF idx > Len(text) THEN (IF cur = << >> THEN << >> ELSE << CsvCells(cur, 1, << >>) >>)
  ELSE IF text[idx] = 13 /\ idx < Len(text) /\ text[idx + 1] = 10
  THEN << CsvCells(cur, 1, << >>) >> \o CsvRows(text, idx + 2, << >>)
  ELSE IF text[idx] \in {10, 13}
  THEN << CsvCells(cur, 1, << >>) >> \o CsvRows(text, idx + 1, << >>)
  ELSE CsvRows(text, idx + 1, Append(cur, text[idx]))

\* The file after text is written from its start: what the file held
\* beyond the length of text stays.
WrittenOver(current, text) ==
  IF Len(current) > Len(text)
  THEN text \o SubSeq(current, Len(text) + 1, Len(current))
  ELSE text

\* The keys of the records the two requests create.
NewKeys == << K_Peru, K_Hanoi >>

\* The form of a new record, from the page of countries.csv.
CreateForm(key) == SaveForm(<< H_Country, H_GDP >>, None, key, V_1)

NotStarted ==
  [pc |-> "idle", form |-> NoForm, header |-> << >>, rows |-> << >>,
   towrite |-> << >>, outcome |-> ""]

RaceIdle == threads = [t \in Threads |-> NotStarted]

RaceFrame ==
  /\ UNCHANGED << USERS, session, wrequest, wresponse, wpc >>
  /\ UNCHANGED << engineVars, normVars, parseVars, searchVars, viVars, travelVars >>

\* POST /admin/countries reaches admin_countries_save in thread t: the
\* session passed before_request and the manager wrappers.
ReceiveSave(t) ==
  /\ wpc # "deploy"
  /\ threads[t].pc = "idle"
  /\ ~require_login_globally(P_admin_countries, session)
  /\ role_required(R_manager, session) = "run"
  /\ threads' = [threads EXCEPT ![t] = [NotStarted EXCEPT !.pc = "read",
                                                          !.form = CreateForm(NewKeys[t])]]
  /\ UNCHANGED files
  /\ RaceFrame

\* Lines 1066-1107: read_csv_file and the work on the handler's own rows;
\* the handler answers without writing, or goes on to write_csv_file.
ReadCsvFile(t) ==
  /\ threads[t].pc = "read"
  /\ LET found == read_csv_file(files["countries.csv"])
         result == admin_save(files["countries.csv"], threads[t].form)
     IN  threads' = [threads EXCEPT ![t] =
                       [pc |-> IF result.outcome = "updated" THEN "open" ELSE "done",
                        form |-> threads[t].form,
                        header |-> found.header,
                        rows |-> found.rows,
                        towrite |-> IF result.outcome = "updated" THEN result.content ELSE << >>,
                        outcome |-> IF result.outcome = "updated" THEN "" ELSE result.outcome]]
  /\ UNCHANGED files
  /\ RaceFrame

\* Line 571: open(path, "w") empties the file.
OpenForWrite(t) ==
  /\ threads[t].pc = "open"
  /\ files' = [files EXCEPT !["countries.csv"] = << >>]
  /\ threads' = [threads EXCEPT ![t].pc = "close"]
  /\ RaceFrame

\* Lines 572-574 and 1108-1110: the rows reach the file when the with
\* block closes it, written from the start of the file; the handler
\* answers.
CloseFile(t) ==
  /\ threads[t].pc = "close"
  /\ files' = [files EXCEPT !["countries.csv"] =
                 CsvRows(WrittenOver(CsvText(files["countries.csv"]),
                                     CsvText(threads[t].towrite)), 1, << >>)]
  /\ threads' = [threads EXCEPT ![t].pc = "done", ![t].outcome = "updated"]
  /\ RaceFrame

\* Budgets of the travel form.
B_00 == <<>>   \* ""
B_01 == <<97, 98, 99>>   \* "abc"
B_02 == <<49, 50, 97, 98, 99>>   \* "12abc"
B_03 == <<49, 44, 48, 48, 48, 44, 48, 48, 48>>   \* "1,000,000"
B_04 == <<51, 48, 44, 48, 48, 48, 44, 48, 48, 48>>   \* "30,000,000"
B_05 == <<50, 57, 57, 57, 57, 57, 57, 57, 46, 57>>   \* "29999999.9"
B_06 == <<54, 48, 48, 48, 48, 48, 48, 48>>   \* "60000000"
B_07 == <<54, 48, 48, 48, 48, 48, 48, 48, 46, 49>>   \* "60000000.1"
B_08 == <<32, 52, 53, 101, 54, 32>>   \* " 45e6 "
B_09 == <<51, 101, 55>>   \* "3e7"
B_10 == <<110, 97, 110>>   \* "nan"
B_11 == <<45, 105, 110, 102>>   \* "-inf"
B_12 == <<73, 110, 102, 105, 110, 105, 116, 121>>   \* "Infinity"
B_13 == <<49, 95, 48, 48, 48>>   \* "1_000"
B_14 == <<49, 95, 95, 48>>   \* "1__0"
B_15 == <<95, 49>>   \* "_1"
B_16 == <<46>>   \* "."
B_17 == <<53, 46>>   \* "5."
B_18 == <<46, 53>>   \* ".5"
B_19 == <<101, 53>>   \* "e5"
B_20 == <<49, 101>>   \* "1e"
B_21 == <<43, 45, 49>>   \* "+-1"
B_22 == <<51, 48, 46, 48, 48, 48, 46, 48, 48, 48>>   \* "30.000.000"
B_23 == <<49, 32, 48, 48, 48>>   \* "1 000"
B_24 == <<44>>   \* ","
B_25 == <<48, 120, 49, 48>>   \* "0x10"
B_26 == <<45, 48>>   \* "-0"
B_27 == <<54, 48, 44, 48, 48, 48, 44, 48, 48, 49>>   \* "60,000,001"
B_28 == <<49, 101, 43, 56>>   \* "1e+8"
B_29 == <<45, 53>>   \* "-5"
B_30 == <<54, 69, 55>>   \* "6E7"
B_31 == <<48, 46, 51, 101, 56>>   \* "0.3e8"
B_32 == <<54, 48, 48, 101, 53>>   \* "600e5"
B_33 == <<50, 57, 57, 57, 57, 57, 57, 57, 57, 101, 45, 49>>   \* "299999999e-1"
B_34 == <<49, 101, 45, 51>>   \* "1e-3"
B_35 == <<78, 97, 78>>   \* "NaN"
B_36 == <<105, 110, 102, 105, 110, 105, 116>>   \* "infinit"
B_37 == <<43, 46, 53, 101, 43, 49>>   \* "+.5e+1"
B_38 == <<49, 46, 101, 49>>   \* "1.e1"
B_39 == <<51, 95, 48, 101, 54>>   \* "3_0e6"
B_40 == <<49, 101, 95, 49>>   \* "1e_1"
B_41 == <<48, 48, 48, 51, 48, 48, 48, 48, 48, 48, 48, 46, 48, 48>>   \* "00030000000.00"

BudgetTexts ==
  {B_00, B_01, B_02, B_03, B_04, B_05, B_06, B_07, B_08, B_09,
   B_10, B_11, B_12, B_13, B_14, B_15, B_16, B_17, B_18, B_19,
   B_20, B_21, B_22, B_23, B_24, B_25, B_26, B_27, B_28, B_29,
   B_30, B_31, B_32, B_33, B_34, B_35, B_36, B_37, B_38, B_39,
   B_40, B_41}

\* The labels of budget_label_map, column names and cells of Tourism.csv, place types of the form.
L_under == <<68, 432, 7899, 105, 32, 51, 48, 46, 48, 48, 48, 46, 48, 48, 48>>   \* "Duoi 30.000.000"
L_mid == <<51, 48, 8211, 54, 48, 32, 116, 114, 105, 7879, 117>>   \* "30-60 trieu"
L_over == <<84, 114, 234, 110, 32, 54, 48, 46, 48, 48, 48, 46, 48, 48, 48>>   \* "Tren 60.000.000"
C_budget == <<98, 117, 100, 103, 101, 116>>   \* "budget"
C_ngan_sach == <<110, 103, 226, 110, 32, 115, 225, 99, 104>>   \* "ngan sach"
C_country == <<99, 111, 117, 110, 116, 114, 121>>   \* "country"
C_quoc_gia == <<113, 117, 7889, 99, 32, 103, 105, 97>>   \* "quoc gia"
H_Budget == <<66, 117, 100, 103, 101, 116>>   \* "Budget"
H_Ngan_sach == <<78, 103, 226, 110, 32, 115, 225, 99, 104>>   \* "Ngan sach"
T_Ha_Long == <<72, 97, 32, 76, 111, 110, 103>>   \* "Ha Long"
T_Sahara == <<83, 97, 104, 97, 114, 97>>   \* "Sahara"
T_Hue == <<72, 117, 101>>   \* "Hue"
T_Da_Lat == <<68, 97, 32, 76, 97, 116>>   \* "Da Lat"
K_Vietnam == <<86, 105, 101, 116, 110, 97, 109>>   \* "Vietnam"
K_Morocco == <<77, 111, 114, 111, 99, 99, 111>>   \* "Morocco"
V_desert == <<100, 101, 115, 101, 114, 116>>   \* "desert"
V_historical == <<104, 105, 115, 116, 111, 114, 105, 99, 97, 108>>   \* "historical"
V_Bien_padded == <<32, 66, 105, 7875, 110, 32>>   \* " Bien "
V_museum == <<109, 117, 115, 101, 117, 109>>   \* "museum"
V_sa_mac == <<115, 97, 32, 109, 7841, 99>>   \* "sa mac"
L_UNDER_padded == <<32, 68, 431, 7898, 73, 32, 51, 48, 46, 48, 48, 48, 46, 48, 48, 48, 32>>   \* " DUOI 30.000.000 "

(***************************************************************************)
(* expert_travel.                                                          *)
(*                                                                         *)
(* float(text) is modelled on the text: its grammar (sign, digits with     *)
(* single underscores between them, one point, an exponent, inf, infinity  *)
(* and nan in any case) and its value as the digits d1 d2 ... and the      *)
(* position p of the point, 0.d1d2... * 10^p.  Values are compared as      *)
(* decimals, which is how the floats compare for texts of up to 15         *)
(* significant digits.                                                     *)
(***************************************************************************)
IsDigit(c) == c \in 48..57

\* str.replace(",", "")
RemoveCommas(s) == SelectSeq(s, LAMBDA c : c # 44)

\* digitpart: digits, with single underscores between digits.
IsDigitPart(t) ==
  /\ t # << >>
  /\ \A i \in DOMAIN t : IsDigit(t[i]) \/ t[i] = 95
  /\ IsDigit(t[1]) /\ IsDigit(t[Len(t)])
  /\ \A i \in 1..(Len(t) - 1) : ~(t[i] = 95 /\ t[i + 1] = 95)

\* The digits of a digitpart, as numbers.
DigitsOf(t) ==
  LET ds == SelectSeq(t, IsDigit)
  IN  [i \in DOMAIN ds |-> ds[i] - 48]

RECURSIVE IntOf(_)
\* The number a sequence of digits writes.
IntOf(ds) == IF ds = << >> THEN 0 ELSE 10 * IntOf(SubSeq(ds, 1, Len(ds) - 1)) + ds[Len(ds)]

NotANumber == [kind |-> "error", neg |-> FALSE, digits |-> << >>, p |-> 0]
Number(kind, neg, digits, p) == [kind |-> kind, neg |-> neg, digits |-> digits, p |-> p]

\* The value of mantissa digits with the point after the first p of them:
\* leading zeros dropped.
Normal(neg, digits, p) ==
  LET nz == {i \in DOMAIN digits : digits[i] # 0}
  IN  IF nz = {} THEN Number("num", neg, << >>, 0)
      ELSE Number("num", neg, SubSeq(digits, SetMin(nz), Len(digits)), p - (SetMin(nz) - 1))

\* float(text): the number, or NotANumber for the ValueError.
float(text) ==
  LET s == strip(text)
      signed == s # << >> /\ s[1] \in {43, 45}
      neg == signed /\ s[1] = 45
      body == IF signed THEN Tail(s) ELSE s
      es == {i \in DOMAIN body : body[i] \in {69, 101}}
      mant == IF es = {} THEN body ELSE SubSeq(body, 1, SetMin(es) - 1)
      expo == IF es = {} THEN << >> ELSE SubSeq(body, SetMin(es) + 1, Len(body))
      esigned == expo # << >> /\ expo[1] \in {43, 45}
      edigits == IF esigned THEN Tail(expo) ELSE expo
      expOk == es = {} \/ IsDigitPart(edigits)
      e == IF es = {} THEN 0
           ELSE IF esigned /\ expo[1] = 45 THEN 0 - IntOf(DigitsOf(edigits))
           ELSE IntOf(DigitsOf(edigits))
      ps == {i \in DOMAIN mant : mant[i] = 46}
      ip == IF ps = {} THEN mant ELSE SubSeq(mant, 1, SetMin(ps) - 1)
      fp == IF ps = {} THEN << >> ELSE SubSeq(mant, SetMin(ps) + 1, Len(mant))
      mantOk == IF ps = {} THEN IsDigitPart(ip)
                ELSE /\ (ip = << >> \/ IsDigitPart(ip))
                     /\ (fp = << >> \/ IsDigitPart(fp))
                     /\ ~(ip = << >> /\ fp = << >>)
  IN  IF lower(body) \in {<< 105, 110, 102 >>, << 105, 110, 102, 105, 110, 105, 116, 121 >>}
      THEN Number("inf", neg, << >>, 0)
      ELSE IF lower(body) = << 110, 97, 110 >> THEN Number("nan", neg, << >>, 0)
      ELSE IF mantOk /\ expOk
      THEN Normal(neg, DigitsOf(ip) \o DigitsOf(fp), Len(DigitsOf(ip)) + e)
      ELSE NotANumber

\* 0.a1a2... < 0.b1b2...
DigitsLess(a, b) ==
  LET n == IF Len(a) < Len(b) THEN Len(b) ELSE Len(a)
      at(x, i) == IF i <= Len(x) THEN x[i] ELSE 0
      d == {i \in 1..n : at(a, i) # at(b, i)}
  IN  d # {} /\ at(a, SetMin(d)) < at(b, SetMin(d))

\* amount < 0.digits * 10^p and amount <= 0.digits * 10^p, for a positive
\* right side; every comparison with nan is false.
AmountLess(amount, digits, p) ==
  IF amount.kind = "nan" THEN FALSE
  ELSE IF amount.kind = "inf" THEN amount.neg
  ELSE IF amount.neg \/ amount.digits = << >> THEN TRUE
  ELSE IF amount.p # p THEN amount.p < p
  ELSE DigitsLess(amount.digits, digits)

AmountLessEq(amount, digits, p) ==
  IF amount.kind = "nan" THEN FALSE
  ELSE IF amount.kind = "inf" THEN amount.neg
  ELSE IF amount.neg \/ amount.digits = << >> THEN TRUE
  ELSE IF amount.p # p THEN amount.p < p
  ELSE ~DigitsLess(digits, amount.digits)

\* Lines 859-865 with the bounds of the middle bucket taken the other way.
BucketOf_bounds_swapped(amount) ==
  IF amount.kind = "error" THEN "none"
  ELSE IF AmountLessEq(amount, << 3 >>, 8) THEN "under"
  ELSE IF AmountLess(amount, << 6 >>, 8) THEN "mid"
  ELSE "over"

\* Lines 852-865: the bucket of the amount, "none" for bucket = None.
\* 30_000_000 is 0.3 * 10^8 and 60_000_000 is 0.6 * 10^8.
BucketOf(amount) ==
  IF amount.kind = "error" THEN "none"
  ELSE IF AmountLess(amount, << 3 >>, 8) THEN "under"
  ELSE IF AmountLessEq(amount, << 6 >>, 8) THEN "mid"
  ELSE "over"

\* budget_label_map.get(bucket)
budget_label_map_get(bucket) ==
  IF bucket = "under" THEN L_under
  ELSE IF bucket = "mid" THEN L_mid
  ELSE IF bucket = "over" THEN L_over
  ELSE None

\* [cell.lower() for cell in row]
lower_row(row) == [j \in DOMAIN row |-> lower(row[j])]

RECURSIVE SortedSet(_)
\* The numbers of a set in rising order.
SortedSet(S) == IF S = {} THEN << >> ELSE << SetMin(S) >> \o SortedSet(S \ {SetMin(S)})

\* load_tourism_data: the places in the order of their first rows, each with
\* its named, non-empty cells (of the last row that has them), all in lower
\* case; IndexError for a row without cells or shorter than a named column.
load_tourism_data(content) ==
  LET rows == [i \in DOMAIN content |-> lower_row(content[i])]
      header == rows[1]
      data == Tail(rows)
      short == \E i \in DOMAIN data :
                 \/ data[i] = << >>
                 \/ \E j \in DOMAIN header : header[j] # << >> /\ j > Len(data[i])
      firsts == {i \in DOMAIN data : \A k \in 1..(i - 1) : data[k][1] # data[i][1]}
      order == SortedSet(firsts)
      InfoOf(name) ==
        LET cells(c) == {x \in (DOMAIN data) \X (DOMAIN header) :
                           /\ data[x[1]][1] = name
                           /\ header[x[2]] = c
                           /\ data[x[1]][x[2]] # << >>}
            named == {header[j] : j \in DOMAIN header} \ {<< >>}
        IN  [c \in {n \in named : cells(n) # {}} |->
               LET i == SetMax({x[1] : x \in cells(c)})
                   j == SetMax({x[2] : x \in {y \in cells(c) : y[1] = i}})
               IN  data[i][j]]
  IN  IF content = << >> THEN Returned(<< >>)
      ELSE IF short THEN Raised("IndexError")
      ELSE Returned([k \in DOMAIN order |-> << data[order[k]][1], InfoOf(data[order[k]][1]) >>])

\* Lines 875-895: the places of the bucket and of the place type, in the
\* order of the table.
PlacesFor(tourism, bucket, place_type) ==
  LET target_label_norm == _norm(budget_label_map_get(bucket))
      fits(place) ==
        /\ normalize_place_type(get_field(place, C_type_of_place, C_loai_dia_diem))
             = normalize_place_type(place_type)
        /\ _norm(get_field(place, C_budget, C_ngan_sach)) = target_label_norm
      hits == SelectSeq(tourism, LAMBDA item : fits(item[2]))
  IN  IF target_label_norm = << >> THEN << >>
      ELSE [i \in DOMAIN hits |-> hits[i][1]]

\* expert_travel: the exception that ends it or the bucket and the names
\* of the places it renders.
expert_travel(content, budget, place_type) ==
  LET tourism == load_tourism_data(content)
      budget_raw == PyOr(budget, << >>)
      amount == float(strip(RemoveCommas(budget_raw)))
      bucket == BucketOf(amount)
  IN  IF tourism.raised # ""
      THEN [raised |-> tourism.raised, bucket |-> "none", result |-> << >>]
      ELSE [raised |-> "", bucket |-> bucket,
            result |-> PlacesFor(tourism.value, bucket, place_type)]

(***************************************************************************)
(* expert_travel called on a table, a budget and a place type.             *)
(***************************************************************************)
\* Tourism.csv: a header row naming the columns and a row of cells for each
\* place, in English and after the migration; two rows of one place; the
\* header alone; the empty file; a file with a blank line, which csv.reader
\* yields as a row without cells; a file with a row that stops early.
TourismTables ==
  { << << H_Name_of_place, H_Country, H_Budget, H_Type_of_place >>,
       << T_Ha_Long, K_Vietnam, L_under, V_beach >>,
       << T_Sahara, K_Morocco, L_over, V_desert >>,
       << T_Hue, K_Vietnam, L_mid, V_historical >>,
       << T_Da_Lat, K_Vietnam, L_UNDER_padded, V_bien >> >>,
    << << H_Diem_den, H_Quoc_gia, H_Ngan_sach, H_Loai_dia_diem >>,
       << T_Ha_Long, K_Vietnam, L_mid, V_bien >>,
       << T_Sahara, K_Morocco, L_over, V_sa_mac >> >>,
    << << H_Name_of_place, H_Country, H_Budget, H_Type_of_place >>,
       << T_Hue, K_Vietnam, L_mid, V_historical >>,
       << T_Sahara, K_Morocco, L_over, V_desert >>,
       << T_Hue, << >>, L_over, << >> >> >>,
    << << H_Name_of_place, H_Country, H_Budget, H_Type_of_place >> >>,
    << >>,
    << << H_Name_of_place, H_Country, H_Budget, H_Type_of_place >>,
       << T_Ha_Long, K_Vietnam, L_under, V_beach >>,
       << >> >>,
    << << H_Name_of_place, H_Country, H_Budget, H_Type_of_place >>,
       << T_Sahara, K_Morocco, L_over >> >> }

PlaceTypeForm == {None, V_beach, V_Bien_padded, V_desert, V_historical, V_museum}
BudgetForm == {None} \cup BudgetTexts

TravelIdle ==
  /\ tcall = [content |-> << >>, budget |-> None, place_type |-> None]
  /\ tresult = [raised |-> "", bucket |-> "none", result |-> << >>]
  /\ tpc = "idle"

\* POST /expert/travel
CallExpertTravel ==
  /\ tpc = "idle"
  /\ \E content \in TourismTables, budget \in BudgetForm, place_type \in PlaceTypeForm :
       /\ tcall' = [content |-> content, budget |-> budget, place_type |-> place_type]
       /\ tresult' = expert_travel(content, budget, place_type)
  /\ tpc' = "answered"
  /\ UNCHANGED notTravel

\* The page is rendered and sent.
TravelReturn ==
  /\ tpc = "answered"
  /\ tpc' = "idle"
  /\ tcall' = [content |-> << >>, budget |-> None, place_type |-> None]
  /\ tresult' = [raised |-> "", bucket |-> "none", result |-> << >>]
  /\ UNCHANGED notTravel

Init == EngineIdle /\ NormIdle /\ ParseIdle /\ SearchIdle /\ ViIdle /\ WebIdle /\ TravelIdle /\ RaceIdle

\* A step of forward_chain_for_country once it is called.
EngineStep == WhileEnter \/ ForStep \/ Return

\* The rule engine, called by /expert/live and /expert/work.
Next == CallLive \/ CallWork \/ WhileEnter \/ ForStep \/ Return

Spec == Init /\ [][Next]_vars

\* The normalize functions, called on their own.
NormNext ==
  \/ CallNormalizeGovernment
  \/ CallNormalizeField
  \/ CallNormalizeReligion
  \/ CallNormalizeClimate
  \/ CallNormalizeTrade
  \/ CallNormalizePlaceType

NormSpec == Init /\ [][NormNext]_vars

\* parse_html, called on a document.
ParseNext == ParseCall \/ ParseMarker \/ ParseReturn

ParseSpec == Init /\ [][ParseNext]_vars

\* The module loaded, then /search requests.
SearchNext == LoadSearchViCache \/ DoSearch \/ SendResponse

SearchSpec == Init /\ [][SearchNext]_vars

\* The module loaded, then get_vi_key_val called on its own.
ViNext == LoadSearchViCache \/ CallGetViKeyVal

ViSpec == Init /\ [][ViNext]_vars

\* The web application started, then requests of one client.
WebNext ==
  \/ InstallCsvFiles
  \/ ViewPage
  \/ DoLogin
  \/ DoRegister
  \/ Logout
  \/ AdminPage
  \/ AdminMigrateVi
  \/ AdminCountriesSave
  \/ AdminCountriesDelete
  \/ AdminTourismSave
  \/ AdminTourismDelete
  \/ SendWebResponse

WebSpec == Init /\ [][WebNext]_vars

\* expert_travel, called on a table and a form.
TravelNext == CallExpertTravel \/ TravelReturn

TravelSpec == Init /\ [][TravelNext]_vars

\* The rule engine, called with the rule lists in every order.
PermNext == CallLivePermuted \/ CallWorkPermuted \/ WhileEnter \/ ForStep \/ Return

PermSpec == Init /\ [][PermNext]_vars

\* Two save requests of a manager in two threads of the server.
RaceNext ==
  \/ InstallCsvFiles
  \/ DoLogin
  \/ SendWebResponse
  \/ \E t \in Threads : ReceiveSave(t)
  \/ \E t \in Threads : ReadCsvFile(t)
  \/ \E t \in Threads : OpenForWrite(t)
  \/ \E t \in Threads : CloseFile(t)

RaceSpec == Init /\ [][RaceNext]_vars

(***************************************************************************)
(* Properties of the rule engine.                                          *)
(***************************************************************************)
IsLive == rules = LIVE_RULES
IsWork == rules = WORK_RULES

\* The entity's normalized attributes, as the rules read them.
EntityClimate == normalize_climate(get_field(info, "average weather", "khi hau trung binh"))
EntityField == normalize_field(get_field(info, "field domain", "linh vuc"))
EntityTrade == normalize_trade(get_field(info, "trade type", "loai thuong mai"))

\* A living-rules context with only the climate set.
OnlyClimate ==
  /\ IsLive
  /\ Truthy(context["climate"])
  /\ ~Truthy(context["government"])
  /\ ~Truthy(context["religion"])

\* C1, as stated: with only the climate set in the context, an entity whose
\* normalized climate equals the context's climate ends with 'selected' set.
C1_SelectedByClimateAlone ==
  (epc = "done" /\ OnlyClimate /\ EntityClimate = context["climate"])
    => FactGet(facts, "selected")

\* C1, amended: with only the climate set in the context, the engine ends
\* with 'climate_match' set exactly for the entities whose normalized climate
\* equals the context's climate, whatever their government and religion, and
\* with 'selected' not set for any entity.
C1_ClimateAloneNeverSelects ==
  (epc = "done" /\ OnlyClimate)
    => /\ ~FactGet(facts, "selected")
       /\ FactGet(facts, "climate_match") <=> (EntityClimate = context["climate"])

C1_Witness ==
  /\ epc = "done"
  /\ OnlyClimate
  /\ EntityClimate = context["climate"]
  /\ FactGet(facts, "climate_match")
  /\ "type of government" \in DOMAIN info

\* C2: the fact set starts empty, and a fact that is set stays set in every
\* later step of the evaluation.
C2_FactsMonotonic ==
  /\ [][epc = "idle" => facts' = << >>]_vars
  /\ [][epc # "idle" => \A k \in DOMAIN facts : facts[k] => FactGet(facts', k)]_vars

C2_Witness ==
  /\ epc = "for"
  /\ passes = 2
  /\ ruleIdx = Len(rules)
  /\ Cardinality(DOMAIN facts) = Len(rules)

\* The position of a run of forward_chain_for_country: the passes begun and
\* the place within the current pass.
Progress ==
  CASE epc = "idle" -> 0 - 1
    [] epc = "for" -> (passes - 1) * (Len(rules) + 1) + ruleIdx
    [] epc = "while" -> passes * (Len(rules) + 1)
    [] epc = "done" -> passes * (Len(rules) + 1) + 1

\* C3: the evaluation ends, and it never begins more passes over the rule
\* list than the list has rules (the last pass, which changes nothing,
\* included): the passes begun stay within the length of the rule list, a
\* run whose last pass changed something can always begin the next pass (the
\* other steps, ForStep and Return, have no guard but the position), and
\* every step moves the run forward.
C3_TerminatesWithinLenPasses ==
  /\ [](passes <= Len(rules))
  /\ []((epc = "while" /\ changed) => passes < MaxPasses)
  /\ [][EngineStep => Progress' > Progress]_vars

C3_Witness == epc = "done" /\ passes = 2 /\ FactGet(facts, "selected")

\* Business mode with a domain and a trade in the context.
BusinessBoth ==
  /\ IsWork
  /\ context["mode"] = S_business
  /\ Truthy(context["domain"])
  /\ Truthy(context["trade"])

\* C4: in business mode with a domain and a trade, the engine ends with
\* 'selected' set if and only if the entity's normalized field equals the
\* domain and its normalized trade type equals the trade.
C4_BusinessNeedsFieldAndTrade ==
  (epc = "done" /\ BusinessBoth)
    => (FactGet(facts, "selected")
          <=> (EntityField = context["domain"] /\ EntityTrade = context["trade"]))

C4_Witness ==
  /\ epc = "done"
  /\ BusinessBoth
  /\ EntityField = context["domain"]
  /\ EntityTrade # context["trade"]
  /\ ~FactGet(facts, "selected")

\* C5: when the mode is not "business", 'trade_match' is never set, and the
\* engine ends with 'selected' set if and only if the entity's normalized
\* field equals the context's domain, whatever the two trades are.
C5_JobIgnoresTrade ==
  (IsWork /\ context["mode"] # S_business)
    => /\ ~FactGet(facts, "trade_match")
       /\ epc = "done" =>
            (FactGet(facts, "selected") <=> (EntityField = context["domain"]))

C5_Witness ==
  /\ epc = "done"
  /\ IsWork
  /\ context["mode"] = S_job
  /\ Truthy(context["trade"])
  /\ EntityTrade # context["trade"]
  /\ FactGet(facts, "selected")

\* The fact a rule sets.
FactOf(rule) ==
  CASE rule = "rule_live_climate" -> "climate_match"
    [] rule = "rule_live_government" -> "gov_match"
    [] rule = "rule_live_religion" -> "religion_match"
    [] rule = "rule_live_selected" -> "selected"
    [] rule = "rule_work_field" -> "field_match"
    [] rule = "rule_work_trade" -> "trade_match"
    [] rule = "rule_work_selected" -> "selected"

\* The rule the for loop is about to call, and what the call gives.
CurrentRule == rules[ruleIdx]
CurrentCall == CallRule(CurrentRule, "entity", info, context, facts)

\* C16: within one call of forward_chain_for_country a rule returns true at
\* most once and sets at most one fact.  Every call of a rule in the for
\* loop is one of: the rule's fact is already there, and the rule returns
\* false and leaves the fact dict as it is; the rule returns true, and its
\* fact, absent before, is the one fact added; the rule returns false and
\* changes nothing.  A fact that is there stays until the call returns, so
\* a rule that has returned true finds its fact at every later call and
\* returns false from then on.
C16_RuleFiresAtMostOnce ==
  /\ [][epc = "for" =>
          ( /\ FactGet(facts, FactOf(CurrentRule)) => (~CurrentCall.ret /\ facts' = facts)
            /\ CurrentCall.ret =>
                 ( /\ ~FactGet(facts, FactOf(CurrentRule))
                   /\ FactOf(CurrentRule) \notin DOMAIN facts
                   /\ facts' = DictSet(facts, FactOf(CurrentRule), TRUE)
                   /\ changed' )
            /\ ~CurrentCall.ret => (facts' = facts /\ changed' = changed) )]_vars
  /\ [][(epc \in {"for", "while"}) =>
          (\A k \in DOMAIN facts : k \in DOMAIN facts' /\ facts[k] = facts'[k])]_vars
  /\ [](\A k \in DOMAIN facts : facts[k] = TRUE)

\* The second pass calls a rule that fired in the first.
C16_Witness ==
  /\ epc = "for"
  /\ passes = 2
  /\ FactGet(facts, FactOf(CurrentRule))
  /\ ~CurrentCall.ret
  /\ Cardinality(DOMAIN facts) >= 2

\* The shipped list the rules of the call are a permutation of.
ShippedOrder == IF rules \in RuleOrders(LIVE_RULES) THEN LIVE_RULES ELSE WORK_RULES

\* C17: for every permutation of LIVE_RULES and of WORK_RULES and every row
\* and context, the fact dict forward_chain_for_country returns is the one
\* it returns for the shipped order of the list.
C17_FactsIndependentOfRuleOrder ==
  epc = "done" =>
    facts = forward_chain_for_country("entity", info, context, ShippedOrder)

\* A run that called rule_live_selected first and needed a third pass.
C17_Witness ==
  /\ epc = "done"
  /\ rules \in RuleOrders(LIVE_RULES)
  /\ rules[1] = "rule_live_selected"
  /\ passes = 3
  /\ FactGet(facts, "selected")

EntityGov == normalize_government(get_field(info, "type of government", "hinh thuc chinh phu"))
EntityReligion == normalize_religion(get_field(info, "major religion", "ton giao chinh"))

\* The criterion of the context is non-empty and equals the attribute.
Meets(criterion, attribute) ==
  Truthy(DictGet(context, criterion)) /\ attribute = context[criterion]

\* C18: in every state of an evaluation, a match fact is there only if the
\* criterion of the context is non-empty and equals the entity's normalized
\* attribute; with LIVE_RULES 'selected' is there only if climate_match,
\* gov_match and religion_match are; with WORK_RULES 'selected' is there
\* only if field_match is and, in business mode, trade_match too.
C18_DerivedFactsSound ==
  epc # "idle" =>
    /\ FactGet(facts, "climate_match") => Meets("climate", EntityClimate)
    /\ FactGet(facts, "gov_match") => Meets("government", EntityGov)
    /\ FactGet(facts, "religion_match") => Meets("religion", EntityReligion)
    /\ FactGet(facts, "field_match") => Meets("domain", EntityField)
    /\ FactGet(facts, "trade_match") => Meets("trade", EntityTrade)
    /\ DOMAIN facts \subseteq
         {"climate_match", "gov_match", "religion_match", "field_match", "trade_match", "selected"}
    /\ (IsLive /\ FactGet(facts, "selected"))
         => /\ FactGet(facts, "climate_match")
            /\ FactGet(facts, "gov_match")
            /\ FactGet(facts, "religion_match")
    /\ (IsWork /\ FactGet(facts, "selected"))
         => /\ FactGet(facts, "field_match")
            /\ context["mode"] = S_business => FactGet(facts, "trade_match")

\* 'selected' was set in business mode by the first pass, before the engine returns.
C18_Witness ==
  /\ epc = "while"
  /\ passes = 1
  /\ IsWork
  /\ context["mode"] = S_business
  /\ facts = [k \in {"field_match", "trade_match", "selected"} |-> TRUE]
  /\ "linh vuc" \in DOMAIN info

(***************************************************************************)
(* Properties of the normalizer.                                           *)
(***************************************************************************)
\* C6: for every (source token, target label) pair of the called function's
\* vocabulary, every spelling of the token and every spelling of the label
\* (letter case, surrounding whitespace) is returned as the source token.
C6_LabelAndTokenGiveToken ==
  npc = "done" =>
    \A i \in DOMAIN ItemsOf(nfun) :
      nvalue \in Variants(ItemsOf(nfun)[i][1]) \cup Variants(ItemsOf(nfun)[i][2])
        => nresult = ItemsOf(nfun)[i][1]

C6_Witness ==
  /\ npc = "done"
  /\ nfun = "normalize_government"
  /\ nvalue = Pad(upper(S_dan_chu))
  /\ nresult = S_democracy

\* C7: a missing argument gives the empty string, and every spelling of a
\* text that is neither a token nor a label of the called function's
\* vocabulary is returned trimmed and in lower case, otherwise unchanged.
C7_UnknownPassesThrough ==
  npc = "done" =>
    /\ nvalue = None => nresult = << >>
    /\ \A b \in Bases \ Vocabulary(nfun) : nvalue \in Variants(b) => nresult = b

C7_Witness ==
  /\ npc = "done"
  /\ nfun = "normalize_climate"
  /\ nvalue = Pad(upper(S_dan_chu))
  /\ nresult = S_dan_chu

(***************************************************************************)
(* Properties of parse_html.                                               *)
(***************************************************************************)
Title(m) == format_key(PyOr(m.aString, << >>))

\* A marker the loop reads to its end: anchor, row and data are there and
\* the cleaned label is not empty.
Stored(m) ==
  /\ m.hasA
  /\ m.hasGrand
  /\ m.row # "absent"
  /\ MarkerData(m) # AttributeError
  /\ Title(m) # << >>

\* The data of the markers with one cleaned label, in document order.
Occurrences(title) ==
  LET ms == SelectSeq(doc, LAMBDA m : Stored(m) /\ Title(m) = title)
  IN  [i \in DOMAIN ms |-> MarkerData(ms[i])]

Keys(d) == {d[i][1] : i \in DOMAIN d}

\* C8: the returned mapping has exactly one entry per distinct cleaned
\* (non-empty) label, and the value of a label is the data of its
\* occurrences in document order, joined by CRLF.
C8_OneMergedEntryPerLabel ==
  ppc = "done" =>
    /\ \A i, j \in DOMAIN possibilities :
         possibilities[i][1] = possibilities[j][1] => i = j
    /\ Keys(possibilities) = {Title(doc[i]) : i \in {j \in DOMAIN doc : Stored(doc[j])}}
    /\ \A i \in DOMAIN possibilities :
         possibilities[i][2] = join(CRLF, Occurrences(possibilities[i][1]))

C8_Witness ==
  /\ ppc = "done"
  /\ Len(doc) = 3
  /\ possibilities = << << S_Area, strip(S_d1) \o CRLF \o S_d2 \o CRLF \o strip(S_d1) >> >>

\* C9: a marker whose following row is absent, or whose row has no
\* category_data element, is skipped: no exception is raised and the
\* entries of the other markers are returned.
C9_MalformedMarkerSkipped ==
  /\ (\A i \in DOMAIN doc : doc[i].hasGrand) => ppc # "raised"
  /\ ppc = "done" =>
       Keys(possibilities) = {Title(doc[i]) : i \in {j \in DOMAIN doc : Stored(doc[j])}}

(***************************************************************************)
(* /search                                                                 *)
(***************************************************************************)
\* The request was answered from an extracted page.
Extracted == response.kind = "render"

\* The query is the command ;matches with no pattern.
MatchesNoPattern == request.query \in {Q_matches, Q_MATCHES_padded, Q_matches_glued}

\* C10: a /search with the command ;matches and an empty pattern, on a page
\* that was extracted, is answered with a result list and not an error, and
\* the list is the first 20 labels of the page in their extraction order
\* (all of them when the page has fewer), each with its value, label and
\* value replaced by their cached translation where the cache has one, and
\* nothing else.
C10_MatchesEmptyPatternFirst20 ==
  (/\ spc = "answered"
   /\ MatchesNoPattern
   /\ strip(request.country) # << >>
   /\ Truthy(code_for_country(strip(request.country)))
   /\ lower(code_for_country(strip(request.country))) \in ArchiveCodes
   /\ page.raised = "")
  => /\ Extracted
     /\ Len(response.results) = (IF Len(page.value) < 20 THEN Len(page.value) ELSE 20)
     /\ \A i \in DOMAIN response.results :
          LET code == lower(code_for_country(strip(request.country)))
              cached == IF code \in DOMAIN SEARCH_VI_CACHE /\ page.value[i][1] \in DOMAIN SEARCH_VI_CACHE[code]
                        THEN SEARCH_VI_CACHE[code][page.value[i][1]] ELSE << >>
          IN  /\ response.results[i][1] =
                   (IF "key_vi" \in DOMAIN cached /\ cached["key_vi"] # << >>
                    THEN cached["key_vi"] ELSE page.value[i][1])
              /\ response.results[i][2] =
                   (IF "val_vi" \in DOMAIN cached /\ cached["val_vi"] # << >>
                    THEN cached["val_vi"] ELSE page.value[i][2])

\* ;matches without a pattern on a page of more than 20 labels, some of them
\* translated in the cache and some not: 20 results, the first translated.
C10_Witness ==
  /\ spc = "answered"
  /\ request = [country |-> S_Chad, query |-> Q_MATCHES_padded]
  /\ Len(page.value) = MaxKeys
  /\ SEARCH_VI_CACHE = CachePartial
  /\ Extracted
  /\ Len(response.results) = 20
  /\ response.results[1] = << Vi(Label(1)), ValueOf(Label(1)) >>
  /\ response.results[20] = << Label(20), ValueOf(Label(20)) >>

\* The country of the request is in the list, its page is in the archive
\* and parse_html returned a mapping for it.
PageExtracted ==
  /\ strip(request.country) # << >>
  /\ Truthy(code_for_country(strip(request.country)))
  /\ lower(code_for_country(strip(request.country))) \in ArchiveCodes
  /\ page.raised = ""

RequestCode == lower(code_for_country(strip(request.country)))

\* The queries with a word to match: ;matches with a pattern (cutoff 0.3)
\* and the default search (cutoff 0.6).
PatternQueries == {Q_matches_area, Q_matches_none}
DefaultQueries == {Q_fuzzy, Q_fuzzy_none, Q_empty}

\* The word get_close_matches is called with.
RequestWord ==
  LET special == strip(lower(request.query))
  IN  IF request.query \in PatternQueries
      THEN LET spaces == {i \in DOMAIN special : special[i] = 32}
           IN  lower(strip(SubSeq(special, SetMin(spaces) + 1, Len(special))))
      ELSE special

\* No title of the page is as similar to the word as the cutoff asks.
NoLabelReachesCutoff ==
  \A i \in DOMAIN page.value :
    LET title == lower(get_vi_key_val(RequestCode, page.value[i][1], << >>)[1])
        r == ratio(title, RequestWord)
    IN  IF request.query \in PatternQueries
        THEN r[1] * 10 < 3 * r[2]
        ELSE r[1] * 10 < 6 * r[2]

\* C11: a default search or a ;matches search with a pattern, on an
\* extracted page none of whose titles reaches the similarity cutoff, is
\* answered with a rendered page and an empty result list, not an exception.
C11_NoMatchGivesEmptyResults ==
  (/\ spc = "answered"
   /\ request.query \in PatternQueries \cup DefaultQueries
   /\ PageExtracted
   /\ NoLabelReachesCutoff)
  => /\ response.kind = "render"
     /\ response.results = << >>

\* A default search and a ;matches search for "qqqq" on a page of
\* translated labels: rendered, no results.
C11_Witness ==
  /\ spc = "answered"
  /\ request.country = S_Chad
  /\ request.query \in {Q_fuzzy_none, Q_matches_none}
  /\ Len(page.value) = MaxKeys
  /\ SEARCH_VI_CACHE = CacheFull
  /\ NoLabelReachesCutoff
  /\ response.kind = "render"
  /\ response.results = << >>

(***************************************************************************)
(* get_vi_key_val                                                          *)
(***************************************************************************)
\* The entry the cache holds for the country code and label of the call,
\* the empty mapping when it holds none.
CachedEntry ==
  LET code == lower(vcall.country_code)
  IN  IF code \in DOMAIN SEARCH_VI_CACHE /\ vcall.key_en \in DOMAIN SEARCH_VI_CACHE[code]
      THEN SEARCH_VI_CACHE[code][vcall.key_en] ELSE << >>

\* The entry holds a (non-empty) translation under the field.
HasTranslation(field) == field \in DOMAIN CachedEntry /\ CachedEntry[field] # << >>

\* C12: get_vi_key_val returns the cached translated label and the cached
\* translated value where the cache holds them for the country code and the
\* label, and the original label and the original value where it does not:
\* both originals when the cache has no entry for the code or the label,
\* and each field on its own when the entry has only one translation.
C12_CachedOrOriginalPerField ==
  /\ vresult[1] = (IF HasTranslation("key_vi") THEN CachedEntry["key_vi"] ELSE vcall.key_en)
  /\ vresult[2] = (IF HasTranslation("val_vi") THEN CachedEntry["val_vi"] ELSE vcall.val_en)
  /\ (CachedEntry = << >>) => vresult = << vcall.key_en, vcall.val_en >>

\* A call for a label whose entry has the translated title only: the
\* translated title with the original value.
C12_Witness ==
  /\ SEARCH_VI_CACHE = CachePartial
  /\ vcall = [country_code |-> S_CH, key_en |-> Label(1), val_en |-> ValueOf(Label(1))]
  /\ vresult = << Vi(Label(1)), ValueOf(Label(1)) >>

\* The country of the request is a name load_country_list returns.
ListedCountry ==
  \E i \in DOMAIN load_country_list(countryList) :
    load_country_list(countryList)[i] = strip(request.country)

\* The codes of the lines whose name is the country of the request.
OwnCodes ==
  {SubSeq(countryList[i], 1, 2) :
     i \in {j \in DOMAIN countryList :
              strip(SubSeq(countryList[j], 4, Len(countryList[j]))) = strip(request.country)}}

\* C20: for every name load_country_list returns, code_for_country(name)
\* is the two-letter code of the name's own line, also when the name is a
\* substring of a line that comes earlier in the file.
C20_CatalogLookupRoundTrips ==
  (spc = "answered" /\ ListedCountry)
    => code_for_country(strip(request.country)) \in OwnCodes

\* The search for Niger was answered from the page of Nigeria.
SearchedNigerGotNigeria ==
  /\ spc = "answered"
  /\ strip(request.country) = strip(S_Niger)
  /\ ListedCountry
  /\ OwnCodes = {S_ni}
  /\ RequestCode = S_ng
  /\ response.kind = "render"

(***************************************************************************)
(* Properties of the web application.                                      *)
(***************************************************************************)
\* A request is answered in this step.
AnswerStep == wpc = "serving" /\ wpc' = "answered"

\* The session the request came with has a logged-in user.
LoggedIn == "user" \in DOMAIN session /\ session["user"] # << >>

\* The session the request came with has the role "manager".
IsManager == "role" \in DOMAIN session /\ session["role"] = R_manager

\* The path is none of /login, /register, /static/*.
Guarded(path) == path \notin {P_login, P_register} /\ ~startswith(path, P_static_prefix)

Store == << USERS, session, files >>

\* C13: a request to a path other than /login, /register and /static/*
\* that comes with no logged-in user in the session is answered by
\* before_request with the redirect to the login page, and no view function
\* runs (credentials, session and files stay as they are); a manager-only
\* view answers only a request whose session has the role "manager"; a
\* request to one from a logged-in user of another role is answered with
\* the permission-denied redirect; and the CSV files change only in a step
\* that answers a manager's request.
C13_LoginAndManagerGates ==
  /\ [][(AnswerStep /\ ~LoggedIn /\ Guarded(wrequest'.path))
          => (/\ wresponse' = RedirectLogin("require_login_globally")
              /\ Store' = Store)]_vars
  /\ [][(AnswerStep /\ wresponse'.kind = "view" /\ wresponse'.by \in ManagerViews)
          => (LoggedIn /\ IsManager)]_vars
  /\ [][(AnswerStep /\ LoggedIn /\ ~IsManager
           /\ ViewOf(wrequest'.method, wrequest'.path) \in ManagerViews)
          => (wresponse' = Denied /\ Store' = Store)]_vars
  /\ [][(wpc # "deploy" /\ files' # files) => (AnswerStep /\ LoggedIn /\ IsManager)]_vars

\* A registered user asks for a CSV save and is denied.
C13_Witness ==
  /\ wpc = "answered"
  /\ wrequest.method = "POST"
  /\ wrequest.path = P_admin_countries
  /\ F_original_key \in DOMAIN wrequest.form
  /\ session = [k \in {"user", "role"} |-> IF k = "user" THEN U_Bob ELSE R_user]
  /\ wresponse = Denied
  /\ Len(files["countries.csv"]) = 3

\* The rows of a file that hold cells, the header left out.
DataRows(content) == SelectSeq(Tail(content), LAMBDA r : r # << >>)

\* The first-column keys of the file are pairwise distinct ignoring case.
UniqueKeys(content) ==
  content = << >> \/
    \A i, j \in DOMAIN DataRows(content) :
      i # j => lower(DataRows(content)[i][1]) # lower(DataRows(content)[j][1])

SaveViews == {"admin_countries_save", "admin_tourism_save"}

FileOf(view) == IF view = "admin_countries_save" THEN "countries.csv" ELSE "Tourism.csv"

\* The key and the original key a save form carries for the file.
FormKey(content, form) == strip(PyOr(DictGet(form, content[1][1]), << >>))
FormOriginalKey(form) == strip(PyOr(DictGet(form, F_original_key), << >>))

\* The record the form asks for would have the key of another record: a
\* new record under a key of the file, or a record moved to one.
Collides(content, form) ==
  /\ content # << >> /\ content[1] # << >>
  /\ FormKey(content, form) # << >>
  /\ \E i \in DOMAIN DataRows(content) :
       lower(DataRows(content)[i][1]) = lower(FormKey(content, form))
  /\ \/ FormOriginalKey(form) = << >>
     \/ lower(FormOriginalKey(form)) # lower(FormKey(content, form))

\* C15: the first-column keys of countries.csv and of Tourism.csv, pairwise
\* distinct ignoring case at the start, stay so after every sequence of
\* save (create, edit with or without change of key, edit of a missing
\* original key) and delete requests; a create or key change that would
\* collide is rejected and leaves the file unchanged, and no other save
\* with a key is rejected.
C15_KeysStayUniqueIgnoringCase ==
  /\ [](\A f \in CsvFiles : UniqueKeys(files[f]))
  /\ [][(AnswerStep /\ wresponse'.kind = "view" /\ wresponse'.by \in SaveViews)
          => LET content == files[FileOf(wresponse'.by)]
             IN  /\ Collides(content, wrequest'.form)
                      => /\ wresponse'.outcome \in {"exists", "cannot_change"}
                         /\ files' = files
                 /\ wresponse'.outcome \in {"exists", "cannot_change"}
                      => Collides(content, wrequest'.form)]_vars

\* A key change to the key of another record was rejected, after a record
\* was created in the file.
C15_Witness ==
  /\ wpc = "answered"
  /\ wresponse = Answered("admin_countries_save", "cannot_change")
  /\ Len(files["countries.csv"]) = 4
  /\ UniqueKeys(files["countries.csv"])
  /\ Len(DataRows(files["countries.csv"])) = 2

\* The username and the password the request of the step carries.
FormUsername == strip(PyOr(DictGet(wrequest'.form, "username"), << >>))
FormPassword == PyOr(DictGet(wrequest'.form, "password"), << >>)

\* The session has the role "manager" after the step.
IsManagerAfter == "role" \in DOMAIN session' /\ session'["role"] = R_manager

\* C19: no sequence of register, login and logout requests escalates
\* privileges.  The credential table changes only when a registration
\* succeeds, and then by one new entry with the role "user", under a
\* username that no existing username equals ignoring case, every existing
\* entry staying as it is; login and logout leave the table alone; and the
\* session comes to hold the role "manager" only in a login whose password
\* opens the hash of an account whose stored role is "manager".
C19_NoPrivilegeEscalation ==
  /\ [][USERS' # USERS =>
          ( /\ AnswerStep
            /\ wresponse' = Answered("do_register", "registered")
            /\ FormUsername \notin DOMAIN USERS
            /\ \A u \in DOMAIN USERS : lower(u) # lower(FormUsername)
            /\ DOMAIN USERS' = DOMAIN USERS \cup {FormUsername}
            /\ USERS'[FormUsername].role = R_user
            /\ USERS'[FormUsername].password_hash = generate_password_hash(FormPassword)
            /\ \A u \in DOMAIN USERS : USERS'[u] = USERS[u] )]_vars
  /\ [][(AnswerStep /\ wresponse'.by \in {"do_login", "logout"}) => USERS' = USERS]_vars
  /\ [][(IsManagerAfter /\ session' # session) =>
          ( /\ AnswerStep
            /\ wresponse' = Answered("do_login", "logged_in")
            /\ FormUsername \in DOMAIN USERS
            /\ USERS[FormUsername].role = R_manager
            /\ USERS[FormUsername].password_hash = generate_password_hash(FormPassword)
            /\ session'["user"] = FormUsername )]_vars
  /\ [](IsManager => /\ session["user"] \in DOMAIN USERS
                     /\ USERS[session["user"]].role = R_manager)
  /\ [](\A u \in DOMAIN USERS :
          USERS[u].role = R_manager => (u \in DOMAIN USERS_initial /\ USERS[u] = USERS_initial[u]))

\* Bob registered, and then a registration under the manager's name in
\* another case was turned down.
C19_Witness ==
  /\ wpc = "answered"
  /\ wresponse = Answered("do_register", "taken")
  /\ wrequest.form["username"] = U_Admin
  /\ U_Bob \in DOMAIN USERS
  /\ session = [k \in {"user", "role"} |-> IF k = "user" THEN U_Bob ELSE R_user]
  /\ USERS[U_admin] = USERS_initial[U_admin]

(***************************************************************************)
(* Claims on expert_travel.                                                *)
(***************************************************************************)
\* The text float() is given: the budget of the form without its commas.
BudgetText == strip(RemoveCommas(PyOr(tcall.budget, << >>)))

Unparsable == float(BudgetText).kind = "error"

\* The rows of a table all hold a cell for every named column.
WellFormed(content) ==
  \A i \in 2..Len(content) :
    /\ content[i] # << >>
    /\ \A j \in DOMAIN content[1] : content[1][j] # << >> => j <= Len(content[i])

\* C14: an unparsable budget (empty or non-numeric text) raises no error and
\* gives the empty result list, for every place type and every tourism
\* table; a parsable amount falls in exactly one bucket: under below
\* 30,000,000, mid from 30,000,000 to 60,000,000, over otherwise.
C14_UnparsableBudgetIsNoMatch ==
  tpc = "answered" =>
    /\ Unparsable => tresult.raised = "" /\ tresult.result = << >>
    /\ ~Unparsable =>
         tresult.bucket = (IF AmountLess(float(BudgetText), << 3 >>, 8) THEN "under"
                           ELSE IF AmountLessEq(float(BudgetText), << 6 >>, 8) THEN "mid"
                           ELSE "over")

\* The same on the tables whose rows hold a cell for every named column.
TravelBudgetOnWellFormedTables ==
  (tpc = "answered" /\ WellFormed(tcall.content)) =>
    /\ tresult.raised = ""
    /\ Unparsable => tresult.bucket = "none" /\ tresult.result = << >>
    /\ ~Unparsable =>
         tresult.bucket = (IF AmountLess(float(BudgetText), << 3 >>, 8) THEN "under"
                           ELSE IF AmountLessEq(float(BudgetText), << 6 >>, 8) THEN "mid"
                           ELSE "over")

\* An unparsable budget on a table with a blank line.
TravelRaisedOnBlankLine ==
  /\ tpc = "answered"
  /\ Unparsable
  /\ tcall.content # << >>
  /\ tcall.content[Len(tcall.content)] = << >>
  /\ tresult.raised = "IndexError"

(***************************************************************************)
(* Claims on concurrent saves.                                             *)
(***************************************************************************)
\* Both requests are answered.
BothDone == \A t \in Threads : threads[t].pc = "done"

\* The file had a header when the first of the requests read it.
HadHeader == \E t \in Threads : threads[t].header # << >>

\* The row is one of the rows of countries.csv.
InFile(row) == \E i \in DOMAIN files["countries.csv"] : files["countries.csv"][i] = row

\* The row thread t was asked to create.
NewRow(t) == << NewKeys[t], V_1 >>

\* C21: when two manager requests that create records under different new
\* keys are processed with their read and write steps interleaved in any
\* order, both new rows are in the file after both requests are answered,
\* and so is every row a request found in the file.
C21_InterleavedSavesNotLost ==
  (BothDone /\ HadHeader) =>
    \A t \in Threads :
      /\ InFile(NewRow(t))
      /\ \A i \in DOMAIN threads[t].rows : InFile(threads[t].rows[i])

\* Both requests were answered "updated" and the row of one is gone.
LostSave ==
  /\ BothDone
  /\ \A t \in Threads : threads[t].outcome = "updated"
  /\ \E t \in Threads : ~InFile(NewRow(t))

\* Both requests were answered "updated" and the file ends with the line
\* end left of a longer row, read as a row without cells.
TornFile ==
  /\ BothDone
  /\ \A t \in Threads : threads[t].outcome = "updated"
  /\ files["countries.csv"][Len(files["countries.csv"])] = << >>
  /\ InFile(NewRow(1))

\* A request read the file while the other had it open for writing, and
\* was answered that the file has no header.
ReadWhileEmptied ==
  /\ BothDone
  /\ HadHeader
  /\ \E t \in Threads : threads[t].outcome = "no_header"

\* One request after the other: both rows are in the file.
BothSaved ==
  /\ BothDone
  /\ \A t \in Threads : InFile(NewRow(t))
  /\ InFile(<< K_Chad, V_1 >>)

====
